---------------------------- MODULE Spec2Model ----------------------------
(***************************************************************************)
(* Bamocar CAN bench-test firmware (UCDFS/CAN-Testing).                    *)
(*                                                                         *)
(* The module models, from the sources,                                    *)
(*   - the register codec: the frame encoders of the sequencer sketches    *)
(*     and the three decoders (headless Teensy, interactive Teensy,        *)
(*     Pro Micro listener)                       -> specification SpecCodec *)
(*   - the interactive Arduino Due sequencer      -> specification SpecDue  *)
(*   - the headless Teensy sequencer (setup with the online wait, then     *)
(*     the torque loop)                      -> specification SpecHeadless *)
(*   - the interactive Teensy sequencer        -> specification SpecTeensy *)
(*   - the two open sketches (pot-driven and fixed torque)                 *)
(*                                        -> specification SpecOpenSketches *)
(*   - the torque scalers                      -> specification SpecScaler *)
(*   - the interactive sequencers with millis() about to wrap              *)
(*                                               -> specification SpecWrap *)
(*   - the Pro Micro listener: its loop() with the interrupt handler       *)
(*     -> specifications SpecListener, FairSpecListener; its table of      *)
(*     identifiers                              -> specification SpecStats *)
(* and unions of these where a property is stated of several sketches.     *)
(*                                                                         *)
(* Time is the millisecond clock millis(), an unsigned 32-bit counter.     *)
(* A frame is [id, len, buf]; buf holds payload bytes 0..2 (TLA+ indexes   *)
(* 1..3), the only bytes any modelled decoder reads.                       *)
(***************************************************************************)
EXTENDS Integers, Sequences, FiniteSets, TLC

VARIABLES
    pc,             \* position of the running sketch
    now,            \* millis()
    currentStep,    \* step counter of the sequencer
    currentTorque,  \* currentTorque / currentTorqueCommand
    lastTorqueSend, \* timestamp of the last cadence send
    bamocarOnline,  \* online flag (headless variant)
    startTime,      \* local of the headless setup(): start of the online wait
    potValue,       \* local of the headless setup(): pedal reading
    rxq,            \* inbound CAN frames not yet read
    serialAvail,    \* characters pending on the serial input
    serialBuf,      \* open sketch: the characters pending on the serial input
    txLog,          \* frames sent by the most recent handler, with send times
    txCount,        \* history: number of frames sent so far
    nTrig,          \* history: number of handled triggers
    lastExec,       \* history: the step the most recent handler executed, or -1
    probes,         \* history: STATUS probes sent by the online wait
    ticks,          \* history: clock advances taken after the sequence
    potCount,       \* history: pot-derived torque frames sent by the main loop
    potSendAt,      \* history: send time of the last of them, or -1
    lastSetpoint,   \* history (interactive sketches): the last torque
                    \* setpoint sent, <<>> before the first
    enableSent,     \* history (sequencers): an Enable frame has been sent
    listener,       \* Pro Micro listener: its globals, a record
    listenerHist,   \* history (listener): read attempts, silence reports
                    \* and sightings of each stored identifier
    triggerEnableSequence, \* open sketch: a pause was requested
    statusAt,       \* history: delivery time of the first STATUS reply, or -1
    iterCost,       \* ms a wait-loop iteration takes beyond its delay(100)
    input,          \* codec: the value or frame under test
    frame,          \* codec: the frame encoded or received
    reading         \* codec: what each decoder made of the frame

seqVars   == <<pc, now, currentStep, currentTorque, lastTorqueSend,
               bamocarOnline, startTime, potValue, triggerEnableSequence>>
envVars   == <<rxq, serialAvail, serialBuf, iterCost>>
histVars  == <<txLog, txCount, nTrig, lastExec, probes, statusAt, ticks,
               potCount, potSendAt, lastSetpoint, enableSent, listener,
               listenerHist>>
codecVars == <<input, frame, reading>>
vars      == <<seqVars, envVars, histVars, codecVars>>

\* what the codec actions leave alone
nonCodec  == <<now, currentStep, currentTorque, lastTorqueSend, bamocarOnline,
               startTime, potValue, triggerEnableSequence, envVars, histVars>>

---------------------------------------------------------------------------
(* Program constants *)

BAMOCAR_RX_ID == 513
BAMOCAR_TX_ID == 385
MAX_ACCEL_PERCENT == 50
TORQUE_MAX == 32767
TORQUE_SEND_INTERVAL_MS == 20
SPEED_REQUEST_INTERVAL_MS == 100
ONLINE_TIMEOUT_MS == 10000
ONLINE_POLL_MS == 100
ENABLE_SETTLE_MS == 100
CAN_TIMEOUT_MS == 2000

REG_REQUEST == 61
REG_STATUS == 64
REG_SPEED == 48
REG_MODE == 81
REG_TORQUE == 144
REG_CLEAR == 142
REG_TIMEOUT == 208
REG_DCBUS == 235
MODE_LOCK == 4
MODE_ENABLE == 0

---------------------------------------------------------------------------
(* Machine integers *)

Pow2(n) == 2 ^ n

U8(x)  == x % 256
U16(x) == x % 65536

\* conversion of an int in 0..65535 (or any int) to int16_t
ToInt16(x) == IF U16(x) >= 32768 THEN U16(x) - 65536 ELSE U16(x)

\* A uint32_t clock value is held as the signed reading of its 32 bits
\* (2^32 - k is held as -k), so the wrap 2^32 - 1 -> 0 is the step -1 -> 0
\* and sums of nearby times need no reduction.
Add32(a, d) == a + d

\* Unsigned 32-bit a - b for clock values less than 2^31 apart.  A negative
\* difference stands for a - b + 2^32, which is above every bound the code
\* compares it with; it is held as the largest signed value.
Sub32(a, b) == IF a - b >= 0 THEN a - b ELSE 2147483647

\* a & b for a two's-complement a and a mask b >= 0: bit i of a negative a
\* is (a \div 2^i) % 2 with flooring division
RECURSIVE BitAnd(_, _)
BitAnd(a, b) ==
    IF b = 0 THEN 0
    ELSE (a % 2) * (b % 2) + 2 * BitAnd(a \div 2, b \div 2)

\* a | b for a, b >= 0
RECURSIVE BitOr(_, _)
BitOr(a, b) ==
    IF a = 0 THEN b
    ELSE IF b = 0 THEN a
    ELSE (IF (a % 2) + (b % 2) > 0 THEN 1 ELSE 0) + 2 * BitOr(a \div 2, b \div 2)

\* x & mask on the int x
AndInt(x, mask) == BitAnd(x, mask)

\* x >> n on an int: arithmetic shift (the sign is copied in)
ShrInt(x, n) == x \div Pow2(n)

\* x << n on a non-negative int that stays below 2^31
ShlInt(x, n) == x * Pow2(n)

---------------------------------------------------------------------------
(* Frames *)

\* ext is the extended-identifier flag: the Due sketches set extended = false
\* on every frame they build, the Teensy sketches build theirs from
\* CAN_message_t msg = {0}
Frame(id, len, b0, b1, b2) ==
    [id |-> id, ext |-> FALSE, len |-> len, buf |-> <<b0, b1, b2>>]

NoFrame == [id |-> -1, ext |-> FALSE, len |-> 0, buf |-> <<0, 0, 0>>]

\* mutant of Raw16: the two value bytes taken in the other order
Raw16_BigEndian(f) == BitOr(f.buf[3], ShlInt(f.buf[2], 8))

\* msg.buf[1] | (msg.buf[2] << 8), an int in 0..65535
Raw16(f) == BitOr(f.buf[2], ShlInt(f.buf[3], 8))


---------------------------------------------------------------------------
(* Frame encoders.  Each operator is the frame its function hands to the    *)
(* transport; the three sketches carry their own copies.                    *)

\* ---- interactive Due sketch
Due_requestStatusOnce == Frame(BAMOCAR_RX_ID, 3, REG_REQUEST, REG_STATUS, 0)

Due_requestSpeedCyclic(intervalMs) ==
    Frame(BAMOCAR_RX_ID, 3, REG_REQUEST, REG_SPEED, U8(intervalMs))

\* enableDrive of the Due sketch sends the Enable frame alone, at time t
Due_enableDrive(t) ==
    << [f |-> Frame(BAMOCAR_RX_ID, 3, REG_MODE, MODE_ENABLE, 0), at |-> t] >>

Due_disableDrive == Frame(BAMOCAR_RX_ID, 3, REG_MODE, MODE_LOCK, 0)

Due_sendTorqueCommand(torqueValue) ==
    Frame(BAMOCAR_RX_ID, 3, REG_TORQUE,
          U8(AndInt(torqueValue, 255)),
          U8(AndInt(ShrInt(torqueValue, 8), 255)))

\* ---- interactive Teensy sketch
Teensy_configureCanTimeout(ms) ==
    Frame(BAMOCAR_RX_ID, 3, REG_TIMEOUT,
          U8(AndInt(U16(ms), 255)),
          U8(AndInt(ShrInt(U16(ms), 8), 255)))

Teensy_sendTorqueCommand(torqueValue) ==
    Frame(BAMOCAR_RX_ID, 3, REG_TORQUE,
          U8(AndInt(torqueValue, 255)),
          U8(AndInt(ShrInt(torqueValue, 8), 255)))

Teensy_requestStatusCyclic(interval_ms) ==
    Frame(BAMOCAR_RX_ID, 3, REG_REQUEST, REG_STATUS, interval_ms)

Teensy_requestStatusOnce == Frame(BAMOCAR_RX_ID, 3, REG_REQUEST, REG_STATUS, 0)

Teensy_requestSpeedCyclic(interval_ms) ==
    Frame(BAMOCAR_RX_ID, 3, REG_REQUEST, REG_SPEED, interval_ms)

Teensy_requestDCBusOnce == Frame(BAMOCAR_RX_ID, 3, REG_REQUEST, REG_DCBUS, 0)

Teensy_clearErrors == Frame(BAMOCAR_RX_ID, 3, REG_CLEAR, 0, 0)

\* Lock, delay(100), Enable: the two frames with their send times
Teensy_enableDrive(t) ==
    << [f |-> Frame(BAMOCAR_RX_ID, 3, REG_MODE, MODE_LOCK, 0), at |-> t],
       [f |-> Frame(BAMOCAR_RX_ID, 3, REG_MODE, MODE_ENABLE, 0),
        at |-> Add32(t, ENABLE_SETTLE_MS)] >>

Teensy_disableDrive == Frame(BAMOCAR_RX_ID, 3, REG_MODE, MODE_LOCK, 0)

\* ---- headless Teensy sketch
requestStatusCyclic(interval_ms) ==
    Frame(BAMOCAR_RX_ID, 3, REG_REQUEST, REG_STATUS, U8(interval_ms))

requestStatusOnce == Frame(BAMOCAR_RX_ID, 3, REG_REQUEST, REG_STATUS, 0)

requestSpeedCyclic(interval_ms) ==
    Frame(BAMOCAR_RX_ID, 3, REG_REQUEST, REG_SPEED, U8(interval_ms))

requestDCBusOnce == Frame(BAMOCAR_RX_ID, 3, REG_REQUEST, REG_DCBUS, 0)

clearErrors == Frame(BAMOCAR_RX_ID, 3, REG_CLEAR, 0, 0)

configureCanTimeout(ms) ==
    Frame(BAMOCAR_RX_ID, 3, REG_TIMEOUT,
          U8(AndInt(U16(ms), 255)),
          U8(AndInt(ShrInt(U16(ms), 8), 255)))

\* enableDrive: Lock, delay(100), Enable.  The result is the two frames with
\* the time each is sent, the first at time t.
enableDrive(t) ==
    << [f |-> Frame(BAMOCAR_RX_ID, 3, REG_MODE, MODE_LOCK, 0), at |-> t],
       [f |-> Frame(BAMOCAR_RX_ID, 3, REG_MODE, MODE_ENABLE, 0),
        at |-> Add32(t, ENABLE_SETTLE_MS)] >>

disableDrive == Frame(BAMOCAR_RX_ID, 3, REG_MODE, MODE_LOCK, 0)

\* mutant of sendTorqueCommand: the two value bytes in big-endian order
sendTorqueCommand_BigEndian(torqueValue) ==
    Frame(BAMOCAR_RX_ID, 3, REG_TORQUE,
          U8(AndInt(ShrInt(torqueValue, 8), 255)),
          U8(AndInt(torqueValue, 255)))

sendTorqueCommand(torqueValue) ==
    Frame(BAMOCAR_RX_ID, 3, REG_TORQUE,
          U8(AndInt(torqueValue, 255)),
          U8(AndInt(ShrInt(torqueValue, 8), 255)))

---------------------------------------------------------------------------
(* Decoders.  A reading is [kind, value]; kind "Empty" is the empty string  *)
(* the Teensy decoders return, or no interpretation printed by the         *)
(* listener.                                                               *)

Reading(kind, value) == [kind |-> kind, value |-> value]

NoReading == Reading("None", 0)

\* The value of a DCBusVoltage reading is the voltage the decoder prints,
\* in tenths of a volt: the decoders print val * 0.1f with %.1f, and for
\* every val of 0..65535 the single-precision product printed with one
\* decimal is val / 10 exactly (the rounding error stays far below 0.05).

\* headless Teensy: every 16-bit value is printed with %d from an int
interpretBamocarMessage(msg) ==
    LET reg == msg.buf[1]
    IN  IF msg.id = BAMOCAR_RX_ID THEN
            CASE reg = REG_REQUEST -> Reading("Request", msg.buf[2])
              [] reg = REG_CLEAR   -> Reading("ClearErrors", 0)
              [] reg = REG_MODE    ->
                    IF msg.buf[2] = MODE_LOCK THEN Reading("Lock", 0)
                    ELSE IF msg.buf[2] = MODE_ENABLE THEN Reading("Enable", 0)
                    ELSE Reading("DriveControl", msg.buf[2])
              [] reg = REG_TORQUE  -> Reading("TorqueSetpoint", Raw16(msg))
              [] reg = REG_TIMEOUT -> Reading("Timeout", Raw16(msg))
              [] OTHER             -> Reading("UnknownCommand", reg)
        ELSE IF msg.id = BAMOCAR_TX_ID THEN
            CASE reg = REG_SPEED  -> Reading("Speed", Raw16(msg))
              [] reg = REG_STATUS -> Reading("Status", Raw16(msg))
              [] reg = REG_DCBUS  -> Reading("DCBusVoltage", Raw16(msg))
              [] OTHER            -> Reading("UnknownReply", reg)
        ELSE Reading("Empty", 0)

\* interactive Teensy: torque, speed, current and torque feedback go
\* through int16_t, status and DC bus voltage through uint16_t
Teensy_interpretBamocarMessage(msg) ==
    LET reg == msg.buf[1]
    IN  IF msg.id = BAMOCAR_RX_ID THEN
            CASE reg = REG_REQUEST -> Reading("Request", msg.buf[2])
              [] reg = REG_CLEAR   -> Reading("ClearErrors", 0)
              [] reg = REG_MODE    ->
                    IF msg.buf[2] = MODE_LOCK THEN Reading("Lock", 0)
                    ELSE IF msg.buf[2] = MODE_ENABLE THEN Reading("Enable", 0)
                    ELSE Reading("DriveControl", msg.buf[2])
              [] reg = REG_TORQUE  -> Reading("TorqueSetpoint", ToInt16(Raw16(msg)))
              [] reg = REG_TIMEOUT -> Reading("Timeout", Raw16(msg))
              [] OTHER             -> Reading("UnknownCommand", reg)
        ELSE IF msg.id = BAMOCAR_TX_ID THEN
            CASE reg = REG_SPEED  -> Reading("Speed", ToInt16(Raw16(msg)))
              [] reg = REG_STATUS -> Reading("Status", U16(Raw16(msg)))
              [] reg = REG_DCBUS  -> Reading("DCBusVoltage", U16(Raw16(msg)))
              [] reg = 95         -> Reading("Current", ToInt16(Raw16(msg)))
              [] reg = 160        -> Reading("TorqueFeedback", ToInt16(Raw16(msg)))
              [] OTHER            -> Reading("UnknownReply", reg)
        ELSE Reading("Empty", 0)

\* interactive Teensy, log decoder: the three numbers printed after
\* Enabled:, Ready: and Fault: for a status reply (<<>> for any other frame)
Teensy_logStatusFlags(msg) ==
    IF msg.id = BAMOCAR_TX_ID /\ msg.buf[1] = REG_STATUS
    THEN LET status == U16(Raw16(msg))
         IN  << BitAnd(status, 1), BitAnd(status, 4), BitAnd(status, 64) >>
    ELSE <<>>

\* interactive Teensy, console decoder of readCanMessages: the three numbers
\* printed after Enabled:, Ready: and Fault: (<<>> when no STATUS line is
\* printed)
Teensy_readCanMessages(msg) ==
    IF msg.id = BAMOCAR_TX_ID /\ msg.len >= 3 /\ msg.buf[1] = REG_STATUS
    THEN LET status == U16(Raw16(msg))
         IN  << IF BitAnd(status, 1) # 0 THEN 1 ELSE 0,
                IF BitAnd(status, 4) # 0 THEN 1 ELSE 0,
                IF BitAnd(status, 64) # 0 THEN 1 ELSE 0 >>
    ELSE <<>>

\* Pro Micro listener: rawTorque is a uint16_t
interpretMessage(msg) ==
    IF msg.len = 0 THEN Reading("RemoteFrame", 0)
    ELSE IF msg.id = BAMOCAR_RX_ID THEN
        IF msg.len < 3 THEN Reading("Malformed", 0)
        ELSE IF msg.buf[1] = REG_TORQUE
             THEN Reading("TorqueSetpoint",
                          BitOr(U16(msg.buf[2]), U16(ShlInt(U16(msg.buf[3]), 8))))
             ELSE Reading("UnknownCommand", msg.buf[1])
    ELSE Reading("Empty", 0)

---------------------------------------------------------------------------
(* The online test of the headless readCanMessages *)

\* mutant of SetsOnline: the length test left out
SetsOnline_NoLength(msg) ==
    msg.id = BAMOCAR_TX_ID /\ msg.buf[1] = REG_STATUS

\* mutant of SetsOnline: any reply register sets the flag
SetsOnline_AnyRegister(msg) ==
    msg.id = BAMOCAR_TX_ID /\ msg.len >= 3

\* mutant of SetsOnline: the identifier test left out
SetsOnline_AnyIdentifier(msg) ==
    msg.len >= 3 /\ msg.buf[1] = REG_STATUS

\* the test of readCanMessages under which a frame sets bamocarOnline
SetsOnline(msg) ==
    msg.id = BAMOCAR_TX_ID /\ msg.len >= 3 /\ msg.buf[1] = REG_STATUS

\* readCanMessages: the value of bamocarOnline after every queued frame q
\* has been read
readCanMessages(online, q) ==
    online \/ \E i \in 1 .. Len(q) : SetsOnline(q[i])

---------------------------------------------------------------------------
(* Values every specification gives the variables it does not use *)

\* the globals of the Pro Micro listener at reset; knownMessageCount is the
\* length of knownMessages
ListenerIdle ==
    [messageReceived |-> FALSE, messageCount |-> 0, errorCount |-> 0,
     lastMessageTime |-> 0, silenceReported |-> FALSE,
     knownMessages |-> <<>>]

\* nothing has happened to the listener: no read attempt, no silence
\* report, no frame arrived, no interrupt (isrAt is the position of loop()
\* the last one cut in at), no identifier stored
ListenerHistIdle ==
    [attempts |-> 0, reports |-> 0, arrived |-> 0, isr |-> 0, isrAt |-> "",
     seen |-> <<>>]

SeqIdle ==
    /\ now = 0 /\ currentStep = 0 /\ currentTorque = 0 /\ lastTorqueSend = 0
    /\ bamocarOnline = FALSE /\ startTime = 0 /\ potValue = 0
    /\ rxq = <<>> /\ serialAvail = 0 /\ serialBuf = <<>> /\ iterCost = 0
    /\ txLog = <<>> /\ txCount = 0 /\ nTrig = 0 /\ lastExec = -1
    /\ ticks = 0 /\ potCount = 0 /\ potSendAt = -1
    /\ lastSetpoint = <<>> /\ enableSent = FALSE
    /\ listener = ListenerIdle /\ listenerHist = ListenerHistIdle
    /\ triggerEnableSequence = FALSE
    /\ probes = 0 /\ statusAt = -1

CodecIdle == input = [op |-> "none", v |-> 0, f |-> NoFrame]
             /\ frame = NoFrame
             /\ reading = [headless |-> NoReading, teensy |-> NoReading,
                           promicro |-> NoReading,
                           teensyLogFlags |-> <<>>, teensyConsole |-> <<>>]

---------------------------------------------------------------------------
(* SpecCodec: one input, encoded or received, then decoded by the three    *)
(* decoders.                                                               *)

\* payload bytes tried in received frames
ByteSamples == {0, 1, 4, 100, 127, 128, 192, 255}

\* register bytes tried in received frames (0 and 119 are in no register
\* table)
RegSamples == {REG_REQUEST, REG_STATUS, REG_SPEED, REG_MODE, REG_TORQUE,
               REG_CLEAR, REG_TIMEOUT, REG_DCBUS, 95, 160, 119, 0}

\* identifiers tried in received frames (291 and 897 are neither well-known
\* one; 897 = 0x381 differs from 0x181 in one bit)
IdSamples == {BAMOCAR_RX_ID, BAMOCAR_TX_ID, 291, 897}

LenSamples == {0, 1, 2, 3, 8}

TorqueInputs == -32768 .. 32767

TimeoutInputs == {256 * h + l : h \in ByteSamples, l \in ByteSamples}

\* A received frame: the bytes past its length are whatever the receive
\* buffer holds, so every sampled byte is tried there too.
RxFrames ==
    { Frame(id, len, r, b1, b2) :
        id \in IdSamples, len \in LenSamples, r \in RegSamples,
        b1 \in {0, 1, 100, 192, 255}, b2 \in {0, 128, 255} }

CodecInputs ==
    { [op |-> "torque", v |-> v, f |-> NoFrame] : v \in TorqueInputs }
    \cup { [op |-> "timeout", v |-> v, f |-> NoFrame] : v \in TimeoutInputs }
    \cup { [op |-> "rx", v |-> 0, f |-> f] : f \in RxFrames }

InitCodec ==
    /\ SeqIdle
    /\ pc = "codecInput"
    /\ input \in CodecInputs
    /\ frame = NoFrame
    /\ reading = [headless |-> NoReading, teensy |-> NoReading,
                  promicro |-> NoReading,
                  teensyLogFlags |-> <<>>, teensyConsole |-> <<>>]

\* sendTorqueCommand(v) in any of the three sequencer sketches
CodecEncodeTorque ==
    /\ pc = "codecInput" /\ input.op = "torque"
    /\ \E fr \in { Due_sendTorqueCommand(input.v),
                   Teensy_sendTorqueCommand(input.v),
                   sendTorqueCommand(input.v) } : frame' = fr
    /\ pc' = "codecFrame"
    /\ UNCHANGED <<input, reading, nonCodec>>

\* configureCanTimeout(ms) in either Teensy sketch
CodecEncodeTimeout ==
    /\ pc = "codecInput" /\ input.op = "timeout"
    /\ \E fr \in { Teensy_configureCanTimeout(input.v),
                   configureCanTimeout(input.v) } : frame' = fr
    /\ pc' = "codecFrame"
    /\ UNCHANGED <<input, reading, nonCodec>>

\* a frame taken from the bus
CodecReceive ==
    /\ pc = "codecInput" /\ input.op = "rx"
    /\ frame' = input.f
    /\ pc' = "codecFrame"
    /\ UNCHANGED <<input, reading, nonCodec>>

\* the frame handed to each decoder.  A received frame is decoded in the
\* body of readCanMessages (by logCANFrame), which then applies the online
\* test to it; a frame the sketch has sent is decoded by sendCAN only.
CodecDecode ==
    /\ pc = "codecFrame"
    /\ reading' = [headless |-> interpretBamocarMessage(frame),
                   teensy   |-> Teensy_interpretBamocarMessage(frame),
                   promicro |-> interpretMessage(frame),
                   teensyLogFlags |-> Teensy_logStatusFlags(frame),
                   teensyConsole |-> Teensy_readCanMessages(frame)]
    /\ bamocarOnline' = IF input.op = "rx"
                        THEN readCanMessages(bamocarOnline, <<frame>>)
                        ELSE bamocarOnline
    /\ pc' = "codecDone"
    /\ UNCHANGED <<input, frame, now, currentStep, currentTorque,
                   lastTorqueSend, startTime, potValue,
                   triggerEnableSequence, envVars, histVars>>

NextCodec ==
    \/ CodecEncodeTorque
    \/ CodecEncodeTimeout
    \/ CodecReceive
    \/ CodecDecode

SpecCodec == InitCodec /\ [][NextCodec]_vars

---------------------------------------------------------------------------
(* Claims on the codec *)

\* the 16-bit two's-complement pattern of an int16 value
Pattern16(v) == IF v < 0 THEN v + 65536 ELSE v

\* C4 (as claimed): for every int16 v, each of the three decoders reads the
\* frame made by sendTorqueCommand(v) as a torque setpoint of value v again;
\* a negative v decodes as negative.
C4_RoundTripAllDecoders ==
    (pc = "codecDone" /\ input.op = "torque") =>
        /\ reading.headless = Reading("TorqueSetpoint", input.v)
        /\ reading.teensy   = Reading("TorqueSetpoint", input.v)
        /\ reading.promicro = Reading("TorqueSetpoint", input.v)

\* C5: for every int16 v the torque encoder makes a frame with identifier
\* 0x201, length 3 and bytes [0x90, low, high] of the 16-bit two's-complement
\* pattern of v; configureCanTimeout does the same with register 0xD0 and an
\* unsigned 16-bit value.
C5_EncoderLayout ==
    /\ (pc \in {"codecFrame", "codecDone"} /\ input.op = "torque") =>
          /\ frame.id = 513 /\ frame.len = 3
          /\ frame.buf = << 144, Pattern16(input.v) % 256,
                            Pattern16(input.v) \div 256 >>
    /\ (pc \in {"codecFrame", "codecDone"} /\ input.op = "timeout") =>
          /\ frame.id = 513 /\ frame.len = 3
          /\ frame.buf = << 208, input.v % 256, input.v \div 256 >>

\* C5 witness: sendTorqueCommand(-16384) has made [0x90, 0x00, 0xC0]
C5_Witness ==
    /\ pc = "codecFrame" /\ input.op = "torque" /\ input.v = -16384
    /\ frame.buf = <<144, 0, 192>>

\* C6 (as claimed): a frame on the command identifier with register 0x90 and
\* a payload shorter than 3 bytes is reported malformed by every decoder,
\* none makes a number out of bytes past the frame's length.
C6_ShortFrameMalformed ==
    (pc = "codecDone" /\ input.op = "rx" /\ frame.id = BAMOCAR_RX_ID
        /\ frame.len \in {1, 2} /\ frame.buf[1] = REG_TORQUE) =>
        /\ reading.headless.kind = "Malformed"
        /\ reading.teensy.kind   = "Malformed"
        /\ reading.promicro.kind = "Malformed"

---------------------------------------------------------------------------
(* SpecDue: the interactive Arduino Due sequencer.                         *)
(* The sketch's state is the record [step, torque, lts, tx]: currentStep   *)
(* (uint8_t), currentTorqueCommand, lastTorqueSend and the frames the      *)
(* running loop() iteration has sent so far, each with its send time.      *)

MaxSerial == 2        \* characters that may be pending at one poll
DueMaxQueue == 1      \* inbound frames that may be pending at one poll
DueMaxTime == 40      \* the clock is advanced up to here
DueTickMs == 10       \* clock advance between two loop() iterations
MaxTriggers == 258    \* key presses in a run

DuePotSamples == {0, 2048, 4095}

DueRxFrames == { Frame(BAMOCAR_TX_ID, 3, REG_STATUS, 1, 0),
                 Frame(BAMOCAR_TX_ID, 3, REG_SPEED, 255, 255) }

Sent(m, fr, t) == [m EXCEPT !.tx = Append(@, [f |-> fr, at |-> t])]

\* whether an Enable frame is on the bus once the frames tx have been sent
EnableSentAfter(prev, tx) ==
    prev \/ \E i \in 1 .. Len(tx) :
                tx[i].f.buf[1] = REG_MODE /\ tx[i].f.buf[2] = MODE_ENABLE

\* the last torque setpoint on the bus after one iteration of loop() has
\* sent the frames tx; cadence tells whether the cadence check sent the last
\* of them
SetpointAfter(prev, tx, cadence) ==
    LET idx == {i \in 1 .. Len(tx) : tx[i].f.buf[1] = REG_TORQUE}
    IN  IF idx = {} THEN prev
        ELSE LET last == CHOOSE i \in idx : \A j \in idx : j <= i
             IN  <<[value |-> ToInt16(Raw16(tx[last].f)), pot |-> cadence]>>

\* The scalers of the sketches compute in single precision.  For readings
\* of 0..8190 the truncated result is the truncated exact quotient, except
\* at the readings below, where the rounded product reaches the next
\* integer (interactive Due: 6434 gives 17161; interactive Teensy: 2339
\* gives 9358 and 4678 gives 18716).
DueFloatCarry == {6434}

TeensyFloatCarry == {2339, 4678}

\* updateTorqueFromPot: pot / 4095 * MAX_ACCEL_PERCENT / 150 of TORQUE_MAX,
\* truncated, then clamped to 0..TORQUE_MAX
Due_updateTorqueFromPot(raw) ==
    LET scaledTorque == (TORQUE_MAX * raw) \div (4095 * 3)
                        + (IF raw \in DueFloatCarry THEN 1 ELSE 0)
    IN  IF scaledTorque > TORQUE_MAX THEN TORQUE_MAX
        ELSE IF scaledTorque < 0 THEN 0
        ELSE scaledTorque

Due_executeStep(m, step, t) ==
    CASE step = 1 -> Sent(m, Due_requestStatusOnce, t)
      [] step = 2 -> Sent(m, Due_requestSpeedCyclic(SPEED_REQUEST_INTERVAL_MS), t)
      [] step = 3 -> [m EXCEPT !.tx = @ \o Due_enableDrive(t)]
      [] step = 4 -> [m EXCEPT !.lts = 0]
      [] step = 5 -> Sent([m EXCEPT !.torque = 0], Due_sendTorqueCommand(0), t)
      [] step = 6 -> Sent(m, Due_disableDrive, t)
      [] OTHER    -> m

\* currentStep++ on a uint8_t
Due_nextStep(step) == U8(step + 1)

\* handleSerialInput with avail characters pending: all are consumed and
\* the step advances once
Due_handleSerialInput(m, avail, t) ==
    IF avail > 0
    THEN Due_executeStep([m EXCEPT !.step = Due_nextStep(m.step)],
                         Due_nextStep(m.step), t)
    ELSE m

\* the cadence check of loop()
Due_torqueTick(m, raw, t) ==
    IF m.step = 4 /\ Sub32(t, m.lts) >= TORQUE_SEND_INTERVAL_MS
    THEN LET tq == Due_updateTorqueFromPot(raw)
         IN  Sent([m EXCEPT !.torque = tq, !.lts = t],
                  Due_sendTorqueCommand(tq), t)
    ELSE m

\* mutant of Due_loop: the cadence check made before the trigger poll
Due_loop_CadenceFirst(m, avail, raw, t) ==
    Due_handleSerialInput(Due_torqueTick(m, raw, t), avail, t)

\* one iteration of loop(): handleSerialInput, readCanMessages (which
\* drains the queue and prints), the cadence check
Due_loop(m, avail, raw, t) ==
    Due_torqueTick(Due_handleSerialInput(m, avail, t), raw, t)

InitDue ==
    /\ CodecIdle
    /\ pc = "dueLoop"
    /\ now = 0 /\ currentStep = 0 /\ currentTorque = 0 /\ lastTorqueSend = 0
    /\ bamocarOnline = FALSE /\ startTime = 0 /\ potValue = 0
    /\ rxq = <<>> /\ serialAvail = 0 /\ serialBuf = <<>> /\ iterCost = 0
    /\ txLog = <<>> /\ txCount = 0 /\ nTrig = 0 /\ lastExec = -1
    /\ ticks = 0 /\ potCount = 0 /\ potSendAt = -1
    /\ lastSetpoint = <<>> /\ enableSent = FALSE
    /\ listener = ListenerIdle /\ listenerHist = ListenerHistIdle
    /\ triggerEnableSequence = FALSE
    /\ probes = 0 /\ statusAt = -1

DueLoop ==
    /\ pc = "dueLoop"
    /\ \E raw \in DuePotSamples :
         LET m0 == [step |-> currentStep, torque |-> currentTorque,
                    lts |-> lastTorqueSend, tx |-> <<>>]
             m1 == Due_handleSerialInput(m0, serialAvail, now)
             m  == Due_loop(m0, serialAvail, raw, now)
             potSent == Len(m.tx) > Len(m1.tx)     \* the cadence check sent
         IN  /\ currentStep' = m.step
             /\ currentTorque' = m.torque
             /\ lastTorqueSend' = m.lts
             /\ txLog' = m.tx
             /\ txCount' = txCount + Len(m.tx)
             /\ potCount' = IF potSent THEN potCount + 1 ELSE potCount
             /\ potSendAt' = IF potSent THEN now ELSE potSendAt
             /\ lastSetpoint' = SetpointAfter(lastSetpoint, m.tx, potSent)
             /\ enableSent' = EnableSentAfter(enableSent, m.tx)
    /\ nTrig' = IF serialAvail > 0 THEN nTrig + 1 ELSE nTrig
    /\ lastExec' = IF serialAvail > 0 THEN Due_nextStep(currentStep) ELSE -1
    /\ serialAvail' = 0
    /\ rxq' = <<>>
    /\ UNCHANGED <<listener, listenerHist,
                   serialBuf, triggerEnableSequence,
                   pc, now, bamocarOnline, startTime, potValue, iterCost,
                   probes, statusAt, ticks, codecVars>>

\* the operator presses a key
DueKeyPress ==
    /\ pc = "dueLoop"
    /\ serialAvail < MaxSerial
    /\ nTrig + serialAvail < MaxTriggers
    /\ serialAvail' = serialAvail + 1
    /\ UNCHANGED <<serialBuf, seqVars, rxq, iterCost, histVars, codecVars>>

\* the transport queues a frame from the bus
DueCanDeliver ==
    /\ pc = "dueLoop"
    /\ Len(rxq) < DueMaxQueue
    /\ \E fr \in DueRxFrames : rxq' = Append(rxq, fr)
    /\ UNCHANGED <<serialBuf, seqVars, serialAvail, iterCost, histVars, codecVars>>

\* time passes
DueTick ==
    /\ pc = "dueLoop"
    /\ now + DueTickMs <= DueMaxTime
    /\ now' = Add32(now, DueTickMs)
    /\ UNCHANGED <<triggerEnableSequence,
                   pc, currentStep, currentTorque, lastTorqueSend,
                   bamocarOnline, startTime, potValue, envVars, histVars,
                   codecVars>>

NextDue ==
    \/ DueLoop
    \/ DueKeyPress
    \/ DueCanDeliver
    \/ DueTick

SpecDue == InitDue /\ [][NextDue]_vars

---------------------------------------------------------------------------
(* SpecHeadless: the headless Teensy sequencer.  setup() runs step 1, the  *)
(* online wait, steps 2..6, the pedal-release wait and step 7; loop() then *)
(* drains the inbound queue and sends torque at the cadence.               *)
(* Positions: hBoot, hWaitCheck (the while test of the online wait),       *)
(* hWaitDelay (its delay(100)), hAborted (the while(1) after a timeout),   *)
(* hSeq (steps 2..6), hPedalWait, hLoop.                                   *)

HMaxQueue == 1        \* inbound frames that may be pending at one poll
MaxIterCost == 1      \* ms a wait-loop iteration may take beyond delay(100)
MaxTicks == 2         \* pedal polls and loop() clock advances in a run
HTickMs == 10         \* clock advance between two loop() iterations

\* full press, nearly released, beyond the rest position
HPotSamples == {1860, 2900, 3000}

\* a STATUS reply, a reply of another register, a STATUS reply cut short,
\* and a frame of a foreign identifier that starts with 0x40
StatusReply == Frame(BAMOCAR_TX_ID, 3, REG_STATUS, 1, 0)

HRxFrames == { StatusReply,
               Frame(BAMOCAR_TX_ID, 3, REG_SPEED, 255, 255),
               Frame(BAMOCAR_TX_ID, 2, REG_STATUS, 1, 0),
               Frame(291, 3, REG_STATUS, 1, 0) }

\* mutant of OnlineWaitContinues: the bound tested with <=
OnlineWaitContinues_Inclusive(online, t, start) ==
    ~online /\ Sub32(t, start) <= ONLINE_TIMEOUT_MS

\* the while test of the online wait
OnlineWaitContinues(online, t, start) ==
    ~online /\ Sub32(t, start) < ONLINE_TIMEOUT_MS

\* mutant of AfterOnlineWait: no abort
AfterOnlineWait_NoAbort(online) == "hSeq"

\* after the wait: while(1) unless the drive is online
AfterOnlineWait(online) == IF online THEN "hSeq" ELSE "hAborted"

\* the frame sent at the running time of m = [tx, t]
SentNow(m, fr) == [m EXCEPT !.tx = Append(@, [f |-> fr, at |-> m.t])]

Delayed(m, ms) == [m EXCEPT !.t = Add32(@, ms)]

\* executeStep(step) started at m.t: the frames it sends and the time it
\* returns (currentStep = step is assigned by the calling action)
executeStep(m, step) ==
    CASE step = 1 -> SentNow(SentNow(m, requestStatusCyclic(100)),
                             requestSpeedCyclic(100))
      [] step = 2 -> SentNow(m, requestDCBusOnce)
      [] step = 3 -> SentNow(m, clearErrors)
      [] step = 4 -> SentNow(m, configureCanTimeout(CAN_TIMEOUT_MS))
      [] step = 5 ->
            LET m1 == Delayed(SentNow(m, clearErrors), 100)
                m2 == [m1 EXCEPT !.tx = @ \o enableDrive(m1.t),
                                 !.t = Add32(@, ENABLE_SETTLE_MS)]
            IN  SentNow(m2, requestStatusOnce)
      [] step = 6 -> SentNow(m, sendTorqueCommand(0))
      [] OTHER    -> m

\* the delay setup() makes after executeStep(step), steps 2..6
StepDelay(step) == IF step <= 4 THEN 200 ELSE 500

\* mutant of PedalPressed: the pedal gate always open
PedalPressed_Never(pot) == FALSE

\* the pedal test of setup(): more than 5 % pressed
\* ((2930 - potValue) * 100.0f / (2930 - 1860) > 5.0f)
PedalPressed(pot) == (2930 - pot) * 100 > 5 * (2930 - 1860)

\* mutant of updateTorqueFromPot: the travel measured from the pressed end
updateTorqueFromPot_Mirrored(pot) ==
    LET span == 2930 - 1860
        num  == (pot - 1860) * 100
    IN  IF num < 0 THEN 0
        ELSE IF num > MAX_ACCEL_PERCENT * span
             THEN (TORQUE_MAX * MAX_ACCEL_PERCENT) \div 100
             ELSE (TORQUE_MAX * (pot - 1860)) \div span

\* updateTorqueFromPot: percent pressed clamped to 0..MAX_ACCEL_PERCENT,
\* then that share of TORQUE_MAX, truncated
updateTorqueFromPot(pot) ==
    LET span == 2930 - 1860
        num  == (2930 - pot) * 100          \* percent * span
    IN  IF num < 0 THEN 0
        ELSE IF num > MAX_ACCEL_PERCENT * span
             THEN (TORQUE_MAX * MAX_ACCEL_PERCENT) \div 100
             ELSE (TORQUE_MAX * (2930 - pot)) \div span

InitHeadless ==
    /\ CodecIdle
    /\ pc = "hBoot"
    /\ now = 0 /\ currentStep = 0 /\ currentTorque = 0 /\ lastTorqueSend = 0
    /\ bamocarOnline = FALSE /\ startTime = 0 /\ potValue = 0
    /\ rxq = <<>> /\ serialAvail = 0 /\ serialBuf = <<>>
    /\ iterCost \in 0 .. MaxIterCost
    /\ txLog = <<>> /\ txCount = 0 /\ nTrig = 0 /\ lastExec = -1
    /\ ticks = 0 /\ potCount = 0 /\ potSendAt = -1
    /\ lastSetpoint = <<>> /\ enableSent = FALSE
    /\ listener = ListenerIdle /\ listenerHist = ListenerHistIdle
    /\ triggerEnableSequence = FALSE
    /\ probes = 0 /\ statusAt = -1

\* executeStep(1); startTime = millis()
HStep1 ==
    /\ pc = "hBoot"
    /\ LET m == executeStep([tx |-> <<>>, t |-> now], 1)
       IN  /\ txLog' = m.tx
           /\ txCount' = txCount + Len(m.tx)
           /\ now' = m.t
           /\ startTime' = m.t
    /\ currentStep' = 1
    /\ lastExec' = 1
    /\ pc' = "hWaitCheck"
    /\ enableSent' = EnableSentAfter(enableSent, txLog')
    /\ UNCHANGED <<potCount, potSendAt, lastSetpoint, listener,
                   listenerHist, triggerEnableSequence,
                   currentTorque, lastTorqueSend, bamocarOnline, potValue,
                   envVars, nTrig, probes, statusAt, ticks, codecVars>>

\* the body of the online wait up to its delay: requestStatusOnce();
\* readCanMessages();
HWaitBody ==
    /\ pc = "hWaitCheck"
    /\ OnlineWaitContinues(bamocarOnline, now, startTime)
    /\ txLog' = <<[f |-> requestStatusOnce, at |-> now]>>
    /\ txCount' = txCount + 1
    /\ probes' = probes + 1
    /\ bamocarOnline' = readCanMessages(bamocarOnline, rxq)
    /\ rxq' = <<>>
    /\ lastExec' = -1
    /\ pc' = "hWaitDelay"
    /\ enableSent' = EnableSentAfter(enableSent, txLog')
    /\ UNCHANGED <<serialBuf, potCount, potSendAt, lastSetpoint, listener,
                   listenerHist, triggerEnableSequence,
                   now, currentStep, currentTorque, lastTorqueSend, startTime,
                   potValue, serialAvail, iterCost, nTrig, statusAt,
                   ticks, codecVars>>

\* delay(100) of the online wait
HWaitDelay ==
    /\ pc = "hWaitDelay"
    /\ now' = Add32(now, ONLINE_POLL_MS + iterCost)
    /\ pc' = "hWaitCheck"
    /\ UNCHANGED <<triggerEnableSequence,
                   currentStep, currentTorque, lastTorqueSend, bamocarOnline,
                   startTime, potValue, envVars, histVars, codecVars>>

\* the wait is over: abort, or go on with steps 2..6
HWaitExit ==
    /\ pc = "hWaitCheck"
    /\ ~OnlineWaitContinues(bamocarOnline, now, startTime)
    /\ pc' = AfterOnlineWait(bamocarOnline)
    /\ UNCHANGED <<triggerEnableSequence,
                   now, currentStep, currentTorque, lastTorqueSend,
                   bamocarOnline, startTime, potValue, envVars, histVars,
                   codecVars>>

\* executeStep(k); delay(..) for the next k of 2..6; after step 6 the ten
\* pedal readings 10 ms apart are averaged
HSeqStep ==
    /\ pc = "hSeq"
    /\ LET k == currentStep + 1
           m == executeStep([tx |-> <<>>, t |-> now], k)
       IN  /\ currentStep' = k
           /\ lastExec' = k
           /\ txLog' = m.tx
           /\ txCount' = txCount + Len(m.tx)
           /\ IF k < 6
              THEN /\ now' = Add32(m.t, StepDelay(k))
                   /\ pc' = "hSeq"
                   /\ potValue' = potValue
              ELSE /\ now' = Add32(m.t, StepDelay(k) + 10 * 10)
                   /\ pc' = "hPedalWait"
                   /\ \E a \in HPotSamples, b \in HPotSamples, n \in 0 .. 10 :
                        potValue' = (n * a + (10 - n) * b) \div 10
    /\ enableSent' = EnableSentAfter(enableSent, txLog')
    /\ UNCHANGED <<potCount, potSendAt, lastSetpoint, listener,
                   listenerHist, triggerEnableSequence,
                   currentTorque, lastTorqueSend, bamocarOnline, startTime,
                   envVars, nTrig, probes, statusAt, ticks, codecVars>>

\* one turn of the pedal-release wait: potValue = analogRead(A0); delay(50)
HPedalPoll ==
    /\ pc = "hPedalWait"
    /\ PedalPressed(potValue)
    /\ ticks < MaxTicks
    /\ \E raw \in HPotSamples : potValue' = raw
    /\ now' = Add32(now, 50)
    /\ ticks' = ticks + 1
    /\ lastExec' = -1
    /\ txLog' = <<>>
    /\ enableSent' = EnableSentAfter(enableSent, txLog')
    /\ UNCHANGED <<potCount, potSendAt, lastSetpoint, listener,
                   listenerHist, triggerEnableSequence,
                   pc, currentStep, currentTorque, lastTorqueSend,
                   bamocarOnline, startTime, envVars, txCount, nTrig, probes,
                   statusAt, codecVars>>

\* the pedal is released: executeStep(7), setup() returns
HPedalDone ==
    /\ pc = "hPedalWait"
    /\ ~PedalPressed(potValue)
    /\ currentStep' = 7
    /\ lastExec' = 7
    /\ txLog' = <<>>
    /\ pc' = "hLoop"
    /\ potValue' = 0            \* the local goes out of scope
    /\ enableSent' = EnableSentAfter(enableSent, txLog')
    /\ UNCHANGED <<potCount, potSendAt, lastSetpoint, listener,
                   listenerHist, triggerEnableSequence,
                   now, currentTorque, lastTorqueSend, bamocarOnline,
                   startTime, envVars, txCount, nTrig, probes, statusAt,
                   ticks, codecVars>>

\* mutant of torqueDue: the interval has to be exceeded
torqueDue_Exceeded(step, t, lts) == step = 7 /\ Sub32(t, lts) > 20

\* the cadence test of loop()
torqueDue(step, t, lts) == step = 7 /\ Sub32(t, lts) >= 20

\* one iteration of loop(): readCanMessages(), then the cadence check
HLoop ==
    /\ pc = "hLoop"
    /\ bamocarOnline' = readCanMessages(bamocarOnline, rxq)
    /\ rxq' = <<>>
    /\ lastExec' = -1
    /\ IF torqueDue(currentStep, now, lastTorqueSend)
       THEN \E raw \in HPotSamples :
              /\ currentTorque' = updateTorqueFromPot(raw)
              /\ txLog' = <<[f |-> sendTorqueCommand(updateTorqueFromPot(raw)),
                             at |-> now]>>
              /\ txCount' = txCount + 1
              /\ lastTorqueSend' = now
              /\ potCount' = potCount + 1
              /\ potSendAt' = now
       ELSE /\ txLog' = <<>>
            /\ UNCHANGED <<currentTorque, txCount, lastTorqueSend,
                           potCount, potSendAt>>
    /\ enableSent' = EnableSentAfter(enableSent, txLog')
    /\ UNCHANGED <<lastSetpoint, listener,
                   listenerHist, serialBuf, triggerEnableSequence,
                   pc, now, currentStep, startTime, potValue, serialAvail,
                   iterCost, nTrig, probes, statusAt, ticks, codecVars>>

\* time passes between two loop() iterations
HTick ==
    /\ pc = "hLoop"
    /\ ticks < MaxTicks
    /\ ticks' = ticks + 1
    /\ now' = Add32(now, HTickMs)
    /\ UNCHANGED <<potCount, potSendAt, lastSetpoint, enableSent, listener,
                   listenerHist, triggerEnableSequence,
                   pc, currentStep, currentTorque, lastTorqueSend,
                   bamocarOnline, startTime, potValue, envVars, txLog,
                   txCount, nTrig, lastExec, probes, statusAt, codecVars>>

\* the transport queues a frame from the bus
HCanDeliver ==
    /\ pc \in {"hBoot", "hWaitCheck", "hWaitDelay", "hAborted", "hSeq",
               "hPedalWait", "hLoop"}
    /\ Len(rxq) < HMaxQueue
    /\ \E fr \in HRxFrames :
         /\ rxq' = Append(rxq, fr)
         /\ statusAt' = IF statusAt = -1 /\ fr = StatusReply
                        THEN now ELSE statusAt
    /\ UNCHANGED <<serialBuf, potCount, potSendAt, lastSetpoint, enableSent, listener,
                   listenerHist,
                   seqVars, serialAvail, iterCost, txLog, txCount, nTrig,
                   lastExec, probes, ticks, codecVars>>

NextHeadless ==
    \/ HStep1
    \/ HWaitBody
    \/ HWaitDelay
    \/ HWaitExit
    \/ HSeqStep
    \/ HPedalPoll
    \/ HPedalDone
    \/ HLoop
    \/ HTick
    \/ HCanDeliver

SpecHeadless == InitHeadless /\ [][NextHeadless]_vars

\* the steps of the sketch itself; the processor keeps running them
HProgram ==
    \/ HStep1
    \/ HWaitBody
    \/ HWaitDelay
    \/ HWaitExit
    \/ HSeqStep
    \/ HPedalPoll
    \/ HPedalDone
    \/ HLoop

FairSpecHeadless == SpecHeadless /\ WF_vars(HProgram)

---------------------------------------------------------------------------
(* SpecTeensy: the interactive Teensy sequencer.  One action is one        *)
(* iteration of loop(); a key press, a frame from the bus and the passing  *)
(* of time are the environment.  The machine m is [step, torque, lts, tx,  *)
(* t]: t is millis() as the iteration proceeds.                            *)

TeensyMaxQueue == 1      \* inbound frames that may be pending at one poll
TeensyMaxTicks == 4      \* clock advances in a run
TeensyTickMs == 10       \* clock advance between two loop() iterations
TeensyMaxTriggers == 10  \* key presses in a run: one past the last step

TeensyPotSamples == {0, 2339, 4095}

TeensyRxFrames == { StatusReply,
                    Frame(BAMOCAR_TX_ID, 3, REG_SPEED, 255, 255) }

\* updateTorqueFromPot: potValue / 4095.0f * MAX_ACCEL_PERCENT percent of
\* TORQUE_MAX, no clamp; the product stays inside int16 up to 8190
Teensy_updateTorqueFromPot(raw) ==
    (TORQUE_MAX * raw) \div ((4095 * 100) \div MAX_ACCEL_PERCENT)
        + (IF raw \in TeensyFloatCarry THEN 1 ELSE 0)

Teensy_executeStep(m, step) ==
    CASE step = 1 -> SentNow(SentNow(m, Teensy_requestStatusCyclic(100)),
                             Teensy_requestSpeedCyclic(100))
      [] step = 2 -> SentNow(m, Teensy_requestDCBusOnce)
      [] step = 3 -> SentNow(m, Teensy_clearErrors)
      [] step = 4 -> SentNow(m, Teensy_configureCanTimeout(CAN_TIMEOUT_MS))
      [] step = 5 ->
            LET m1 == Delayed(SentNow(m, Teensy_clearErrors), 100)
                m2 == [m1 EXCEPT !.tx = @ \o Teensy_enableDrive(m1.t),
                                 !.t = Add32(@, ENABLE_SETTLE_MS)]
            IN  SentNow(m2, Teensy_requestStatusOnce)
      [] step = 6 -> SentNow(m, Teensy_sendTorqueCommand(0))
      [] step = 8 -> SentNow(m, Teensy_disableDrive)
      [] OTHER    -> m

\* handleSerialInput: one pending character is read and the step advances
Teensy_handleSerialInput(m, avail) ==
    IF avail > 0
    THEN Teensy_executeStep([m EXCEPT !.step = @ + 1], m.step + 1)
    ELSE m

\* mutant of Teensy_torqueTick: no cadence test
Teensy_torqueTick_NoCadence(m, raw) ==
    IF m.step = 7
    THEN LET tq == Teensy_updateTorqueFromPot(raw)
         IN  SentNow([m EXCEPT !.torque = tq, !.lts = m.t],
                     Teensy_sendTorqueCommand(tq))
    ELSE m

\* mutant of Teensy_torqueTick: the cadence check without the step test
Teensy_torqueTick_AnyStep(m, raw) ==
    IF Sub32(m.t, m.lts) >= 20
    THEN LET tq == Teensy_updateTorqueFromPot(raw)
         IN  SentNow([m EXCEPT !.torque = tq, !.lts = m.t],
                     Teensy_sendTorqueCommand(tq))
    ELSE m

\* the cadence check of loop()
Teensy_torqueTick(m, raw) ==
    IF m.step = 7 /\ Sub32(m.t, m.lts) >= 20
    THEN LET tq == Teensy_updateTorqueFromPot(raw)
         IN  SentNow([m EXCEPT !.torque = tq, !.lts = m.t],
                     Teensy_sendTorqueCommand(tq))
    ELSE m

\* one iteration of loop(): handleSerialInput, readCanMessages (which
\* drains the queue and logs), the cadence check
Teensy_loop(m, avail, raw) ==
    Teensy_torqueTick(Teensy_handleSerialInput(m, avail), raw)

InitTeensy ==
    /\ CodecIdle
    /\ pc = "teensyLoop"
    /\ now = 0 /\ currentStep = 0 /\ currentTorque = 0 /\ lastTorqueSend = 0
    /\ bamocarOnline = FALSE /\ startTime = 0 /\ potValue = 0
    /\ triggerEnableSequence = FALSE
    /\ rxq = <<>> /\ serialAvail = 0 /\ serialBuf = <<>> /\ iterCost = 0
    /\ txLog = <<>> /\ txCount = 0 /\ nTrig = 0 /\ lastExec = -1
    /\ ticks = 0 /\ potCount = 0 /\ potSendAt = -1
    /\ lastSetpoint = <<>> /\ enableSent = FALSE
    /\ listener = ListenerIdle /\ listenerHist = ListenerHistIdle
    /\ probes = 0 /\ statusAt = -1

TeensyLoop ==
    /\ pc = "teensyLoop"
    /\ \E raw \in TeensyPotSamples :
         LET m0 == [step |-> currentStep, torque |-> currentTorque,
                    lts |-> lastTorqueSend, tx |-> <<>>, t |-> now]
             m1 == Teensy_handleSerialInput(m0, serialAvail)
             m  == Teensy_loop(m0, serialAvail, raw)
             potSent == Len(m.tx) > Len(m1.tx)     \* the cadence check sent
         IN  /\ currentStep' = m.step
             /\ currentTorque' = m.torque
             /\ lastTorqueSend' = m.lts
             /\ now' = m.t
             /\ txLog' = m.tx
             /\ txCount' = txCount + Len(m.tx)
             /\ potCount' = IF potSent THEN potCount + 1 ELSE potCount
             /\ potSendAt' = IF potSent THEN m.t ELSE potSendAt
             /\ lastSetpoint' = SetpointAfter(lastSetpoint, m.tx, potSent)
             /\ enableSent' = EnableSentAfter(enableSent, m.tx)
    /\ nTrig' = IF serialAvail > 0 THEN nTrig + 1 ELSE nTrig
    /\ lastExec' = IF serialAvail > 0 THEN currentStep + 1 ELSE -1
    /\ serialAvail' = IF serialAvail > 0 THEN serialAvail - 1 ELSE 0
    /\ rxq' = <<>>
    /\ UNCHANGED <<listener, listenerHist,
                   pc, bamocarOnline, startTime, potValue,
                   triggerEnableSequence, serialBuf, iterCost, probes,
                   statusAt, ticks, codecVars>>

\* the operator presses a key
TeensyKeyPress ==
    /\ pc = "teensyLoop"
    /\ serialAvail < MaxSerial
    /\ nTrig + serialAvail < TeensyMaxTriggers
    /\ serialAvail' = serialAvail + 1
    /\ UNCHANGED <<seqVars, rxq, serialBuf, iterCost, histVars, codecVars>>

\* the transport queues a frame from the bus
TeensyCanDeliver ==
    /\ pc = "teensyLoop"
    /\ Len(rxq) < TeensyMaxQueue
    /\ \E fr \in TeensyRxFrames : rxq' = Append(rxq, fr)
    /\ UNCHANGED <<seqVars, serialAvail, serialBuf, iterCost, histVars,
                   codecVars>>

\* time passes
TeensyTick ==
    /\ pc = "teensyLoop"
    /\ ticks < TeensyMaxTicks
    /\ ticks' = ticks + 1
    /\ now' = Add32(now, TeensyTickMs)
    /\ UNCHANGED <<pc, currentStep, currentTorque, lastTorqueSend,
                   bamocarOnline, startTime, potValue, triggerEnableSequence,
                   envVars, txLog, txCount, nTrig, lastExec, probes,
                   statusAt, potCount, potSendAt, lastSetpoint, enableSent, listener,
                   listenerHist, codecVars>>

NextTeensy ==
    \/ TeensyLoop
    \/ TeensyKeyPress
    \/ TeensyCanDeliver
    \/ TeensyTick

SpecTeensy == InitTeensy /\ [][NextTeensy]_vars

---------------------------------------------------------------------------
(* SpecInteractive: either interactive sequencer, the Due one or the       *)
(* Teensy one.                                                             *)

InitInteractive == InitDue \/ InitTeensy

NextInteractive ==
    \/ NextDue
    \/ NextTeensy

SpecInteractive == InitInteractive /\ [][NextInteractive]_vars

---------------------------------------------------------------------------
(* SpecWrap: the interactive sketches, reset long enough ago for the        *)
(* 32-bit millisecond clock to be about to wrap                             *)

WrapLead == 20        \* milliseconds left before millis() wraps to 0

\* the clock of the Teensy sketch at the start: its Enable step takes
\* delay(100) and the settle time of enableDrive, and is to end before the
\* wrap
TeensyWrapStart == -(WrapLead + 100 + ENABLE_SETTLE_MS)

\* either interactive sketch after a long time in step 0, during which
\* loop() only drained the inbound queue
InitWrap ==
    /\ CodecIdle
    /\ \/ pc = "dueLoop" /\ now = -WrapLead
       \/ pc = "teensyLoop" /\ now = TeensyWrapStart
    /\ currentStep = 0 /\ currentTorque = 0 /\ lastTorqueSend = 0
    /\ bamocarOnline = FALSE /\ startTime = 0 /\ potValue = 0
    /\ triggerEnableSequence = FALSE
    /\ rxq = <<>> /\ serialAvail = 0 /\ serialBuf = <<>> /\ iterCost = 0
    /\ txLog = <<>> /\ txCount = 0 /\ nTrig = 0 /\ lastExec = -1
    /\ ticks = 0 /\ potCount = 0 /\ potSendAt = -1
    /\ lastSetpoint = <<>> /\ enableSent = FALSE
    /\ listener = ListenerIdle /\ listenerHist = ListenerHistIdle
    /\ probes = 0 /\ statusAt = -1

SpecWrap == InitWrap /\ [][NextInteractive]_vars

---------------------------------------------------------------------------
(* SpecScaler: one raw reading, scaled by the scaler of one sketch.  A     *)
(* second reading a little above the first is scaled with it.              *)

RawMax == 8000        \* largest raw reading tried (the ADC gives 0..4095)

RawDeltas == {1, 64}

\* integer division of C++ for a positive divisor: towards zero
TruncDiv(a, b) == IF a >= 0 THEN a \div b ELSE -((-a) \div b)

Abs(x) == IF x < 0 THEN -x ELSE x

\* ---- open sketch (bidirectional)
MAX_ACCEL_POS == 50
TORQUE_FULL_SCALE == 32767
ANALOG_CENTER == 512
ANALOG_DEADZONE == 8

MAX_TORQUE_COMMAND == TruncDiv(MAX_ACCEL_POS * TORQUE_FULL_SCALE, 100)

\* mutant of Deadband: the edge of the deadzone left out
Deadband_Strict(centered) ==
    IF Abs(centered) < ANALOG_DEADZONE THEN 0 ELSE centered

\* if (abs(centered) <= ANALOG_DEADZONE) centered = 0;
Deadband(centered) ==
    IF Abs(centered) <= ANALOG_DEADZONE THEN 0 ELSE centered

\* mutant of scaledCommand: the direction reversed
scaledCommand_Reversed(centered) ==
    TruncDiv((0 - centered) * MAX_TORQUE_COMMAND, ANALOG_CENTER)

\* (int32_t)centered * MAX_TORQUE_COMMAND / ANALOG_CENTER
scaledCommand(centered) ==
    TruncDiv(centered * MAX_TORQUE_COMMAND, ANALOG_CENTER)

\* mutant of ClampCommand: no clamp
ClampCommand_None(scaled) == scaled

\* the clamp of sendTorqueFrame
ClampCommand(scaled) ==
    IF scaled > MAX_TORQUE_COMMAND THEN MAX_TORQUE_COMMAND
    ELSE IF scaled < -MAX_TORQUE_COMMAND THEN -MAX_TORQUE_COMMAND
    ELSE scaled

\* sendTorqueFrame for the reading rawPot: the int32 value after the clamp,
\* the int16 torqueCommand and the frame sent
sendTorqueFrame(rawPot) ==
    LET scaled == ClampCommand(scaledCommand(Deadband(rawPot - ANALOG_CENTER)))
        torqueCommand == ToInt16(scaled)
        commandBytes == U16(torqueCommand)
    IN  [wide |-> scaled,
         value |-> torqueCommand,
         f |-> Frame(513, 3, 144, AndInt(commandBytes, 255),
                     AndInt(ShrInt(commandBytes, 8), 255))]

SketchNames == {"open", "headless", "teensy", "due"}

ScalerInputs ==
    { [op |-> "scale", sketch |-> sk, v |-> a, w |-> a + d] :
          sk \in SketchNames, a \in 0 .. RawMax, d \in RawDeltas }

InitScaler ==
    /\ SeqIdle
    /\ pc = "scalerInput"
    /\ input \in ScalerInputs
    /\ frame = NoFrame
    /\ reading = [value |-> 0, other |-> 0, wide |-> 0]

ScaleOpen ==
    /\ pc = "scalerInput" /\ input.sketch = "open"
    /\ reading' = [value |-> sendTorqueFrame(input.v).value,
                   other |-> sendTorqueFrame(input.w).value,
                   wide  |-> sendTorqueFrame(input.v).wide]
    /\ frame' = sendTorqueFrame(input.v).f
    /\ pc' = "scalerDone"
    /\ UNCHANGED <<input, nonCodec>>

ScaleHeadless ==
    /\ pc = "scalerInput" /\ input.sketch = "headless"
    /\ reading' = [value |-> updateTorqueFromPot(input.v),
                   other |-> updateTorqueFromPot(input.w),
                   wide  |-> updateTorqueFromPot(input.v)]
    /\ frame' = sendTorqueCommand(updateTorqueFromPot(input.v))
    /\ pc' = "scalerDone"
    /\ UNCHANGED <<input, nonCodec>>

ScaleTeensy ==
    /\ pc = "scalerInput" /\ input.sketch = "teensy"
    /\ reading' = [value |-> Teensy_updateTorqueFromPot(input.v),
                   other |-> Teensy_updateTorqueFromPot(input.w),
                   wide  |-> Teensy_updateTorqueFromPot(input.v)]
    /\ frame' = Teensy_sendTorqueCommand(Teensy_updateTorqueFromPot(input.v))
    /\ pc' = "scalerDone"
    /\ UNCHANGED <<input, nonCodec>>

ScaleDue ==
    /\ pc = "scalerInput" /\ input.sketch = "due"
    /\ reading' = [value |-> Due_updateTorqueFromPot(input.v),
                   other |-> Due_updateTorqueFromPot(input.w),
                   wide  |-> Due_updateTorqueFromPot(input.v)]
    /\ frame' = Due_sendTorqueCommand(Due_updateTorqueFromPot(input.v))
    /\ pc' = "scalerDone"
    /\ UNCHANGED <<input, nonCodec>>

NextScaler ==
    \/ ScaleOpen
    \/ ScaleHeadless
    \/ ScaleTeensy
    \/ ScaleDue

SpecScaler == InitScaler /\ [][NextScaler]_vars

---------------------------------------------------------------------------
(* SpecOpen: the open sketch.  One action is one iteration of loop(): the  *)
(* pending characters are read, then either the pause with the Lock and    *)
(* Enable frames or one torque frame and delay(10).                        *)

OpenMaxSerial == 2    \* characters that may be pending at one loop()
OpenMaxLoops == 4     \* iterations of loop() in a run

OpenChars == {"s", "S", "x"}

OpenPotSamples == {0, 512, 1023}

\* mutant of Open_lockFrame: the mode bits put into the high byte
Open_lockFrame_HighByte == Frame(513, 3, 81, 0, 4)

Open_lockFrame == Frame(513, 3, 81, 4, 0)

Open_enableFrame == Frame(513, 3, 81, 0, 0)

\* mutant of Open_readSerial: any character requests the pause
Open_readSerial_AnyChar(flag, buf) ==
    flag \/ Len(buf) > 0

\* the while loop over Serial.available(): the flag after the pending
\* characters buf have been read
Open_readSerial(flag, buf) ==
    flag \/ \E i \in 1 .. Len(buf) : buf[i] \in {"s", "S"}

InitOpen ==
    /\ CodecIdle
    /\ pc = "openLoop"
    /\ now = 0 /\ currentStep = 0 /\ currentTorque = 0 /\ lastTorqueSend = 0
    /\ bamocarOnline = FALSE /\ startTime = 0 /\ potValue = 0
    /\ triggerEnableSequence = FALSE
    /\ rxq = <<>> /\ serialAvail = 0 /\ serialBuf = <<>> /\ iterCost = 0
    /\ txLog = <<>> /\ txCount = 0 /\ nTrig = 0 /\ lastExec = -1
    /\ ticks = 0 /\ potCount = 0 /\ potSendAt = -1
    /\ lastSetpoint = <<>> /\ enableSent = FALSE
    /\ listener = ListenerIdle /\ listenerHist = ListenerHistIdle
    /\ probes = 0 /\ statusAt = -1

OpenLoop ==
    /\ pc = "openLoop"
    /\ ticks < OpenMaxLoops
    /\ ticks' = ticks + 1
    /\ serialBuf' = <<>>
    /\ triggerEnableSequence' = FALSE
    /\ IF Open_readSerial(triggerEnableSequence, serialBuf)
       THEN \* delay(2000); lock; delay(100); enable; delay(2000)
            /\ txLog' = << [f |-> Open_lockFrame, at |-> Add32(now, 2000)],
                           [f |-> Open_enableFrame, at |-> Add32(now, 2100)] >>
            /\ txCount' = txCount + 2
            /\ now' = Add32(now, 4100)
            /\ UNCHANGED <<potCount, potSendAt>>
       ELSE \* sendTorqueFrame(); delay(10)
            /\ \E rawPot \in OpenPotSamples :
                 txLog' = << [f |-> sendTorqueFrame(rawPot).f, at |-> now] >>
            /\ txCount' = txCount + 1
            /\ potCount' = potCount + 1
            /\ potSendAt' = now
            /\ now' = Add32(now, 10)
    /\ enableSent' = EnableSentAfter(enableSent, txLog')
    /\ UNCHANGED <<lastSetpoint, listener,
                   listenerHist, pc, currentStep, currentTorque, lastTorqueSend,
                   bamocarOnline, startTime, potValue, rxq, serialAvail,
                   iterCost, nTrig, lastExec, probes, statusAt, codecVars>>

\* a character arrives on the serial input
OpenKeyPress ==
    /\ pc = "openLoop"
    /\ Len(serialBuf) < OpenMaxSerial
    /\ \E c \in OpenChars : serialBuf' = Append(serialBuf, c)
    /\ UNCHANGED <<seqVars, rxq, serialAvail, iterCost, histVars, codecVars>>

NextOpen ==
    \/ OpenLoop
    \/ OpenKeyPress

SpecOpen == InitOpen /\ [][NextOpen]_vars

---------------------------------------------------------------------------
(* The fixed-torque open sketch: the loop() of the open sketch, with a     *)
(* torque frame whose bytes setup() has fixed at 15% torque.               *)

Fixed_torqueFrame == Frame(513, 3, 144, 50, 19)

Fixed_lockFrame == Frame(513, 3, 81, 4, 0)

Fixed_enableFrame == Frame(513, 3, 81, 0, 0)

Fixed_readSerial(flag, buf) ==
    flag \/ \E i \in 1 .. Len(buf) : buf[i] \in {"s", "S"}

InitFixed ==
    /\ CodecIdle
    /\ SeqIdle
    /\ pc = "fixedLoop"

FixedLoop ==
    /\ pc = "fixedLoop"
    /\ ticks < OpenMaxLoops
    /\ ticks' = ticks + 1
    /\ serialBuf' = <<>>
    /\ triggerEnableSequence' = FALSE
    /\ IF Fixed_readSerial(triggerEnableSequence, serialBuf)
       THEN \* delay(2000); lock; delay(100); enable; delay(2000)
            /\ txLog' = << [f |-> Fixed_lockFrame, at |-> Add32(now, 2000)],
                           [f |-> Fixed_enableFrame, at |-> Add32(now, 2100)] >>
            /\ txCount' = txCount + 2
            /\ now' = Add32(now, 4100)
       ELSE \* sendTorqueFrame(); delay(10)
            /\ txLog' = << [f |-> Fixed_torqueFrame, at |-> now] >>
            /\ txCount' = txCount + 1
            /\ now' = Add32(now, 10)
    /\ enableSent' = EnableSentAfter(enableSent, txLog')
    /\ UNCHANGED <<pc, currentStep, currentTorque, lastTorqueSend,
                   bamocarOnline, startTime, potValue, rxq, serialAvail,
                   iterCost, nTrig, lastExec, probes, statusAt, potCount,
                   potSendAt, lastSetpoint, listener,
                   listenerHist, codecVars>>

\* a character arrives on the serial input
FixedKeyPress ==
    /\ pc = "fixedLoop"
    /\ Len(serialBuf) < OpenMaxSerial
    /\ \E c \in OpenChars : serialBuf' = Append(serialBuf, c)
    /\ UNCHANGED <<seqVars, rxq, serialAvail, iterCost, histVars, codecVars>>

NextFixed ==
    \/ FixedLoop
    \/ FixedKeyPress

---------------------------------------------------------------------------
(* SpecOpenSketches: either open sketch *)

InitOpenSketches == InitOpen \/ InitFixed

NextOpenSketches ==
    \/ NextOpen
    \/ NextFixed

SpecOpenSketches == InitOpenSketches /\ [][NextOpenSketches]_vars

---------------------------------------------------------------------------
(* SpecCadence: the four sketches that send pot-derived torque frames from *)
(* their main loop, each run being a run of one of them.                   *)

InitCadence == InitDue \/ InitTeensy \/ InitHeadless \/ InitOpen

NextCadence ==
    \/ NextDue
    \/ NextTeensy
    \/ NextHeadless
    \/ NextOpen

SpecCadence == InitCadence /\ [][NextCadence]_vars

---------------------------------------------------------------------------
(* SpecSenders: any sketch that sends frames, the fixed-torque one too *)

InitSenders == InitCadence \/ InitFixed

NextSenders ==
    \/ NextCadence
    \/ NextFixed

SpecSenders == InitSenders /\ [][NextSenders]_vars

---------------------------------------------------------------------------
(* SpecSteps: executeStep of one sequencer sketch called once with one     *)
(* step number, at one time.                                               *)

StepMax == 10         \* largest step number tried

StepTimes == {0, 1000, 65535}

SequencerNames == {"due", "teensy", "headless"}

StepInputs ==
    { [op |-> "step", sketch |-> sk, v |-> st, t |-> t0] :
          sk \in SequencerNames, st \in 0 .. StepMax, t0 \in StepTimes }

InitSteps ==
    /\ SeqIdle
    /\ pc = "stepInput"
    /\ input \in StepInputs
    /\ frame = NoFrame
    /\ reading = [value |-> 0, other |-> 0, wide |-> 0]

StepDue ==
    /\ pc = "stepInput" /\ input.sketch = "due"
    /\ LET m == Due_executeStep([step |-> currentStep,
                                 torque |-> currentTorque,
                                 lts |-> lastTorqueSend, tx |-> <<>>],
                                input.v, input.t)
       IN  /\ txLog' = m.tx
           /\ txCount' = Len(m.tx)
           /\ currentTorque' = m.torque
           /\ lastTorqueSend' = m.lts
           /\ now' = input.t
           /\ currentStep' = currentStep
    /\ lastExec' = input.v
    /\ pc' = "stepDone"
    /\ enableSent' = EnableSentAfter(enableSent, txLog')
    /\ UNCHANGED <<bamocarOnline, startTime, potValue, triggerEnableSequence,
                   envVars, nTrig, probes, statusAt, ticks, potCount,
                   potSendAt, lastSetpoint, listener,
                   listenerHist, codecVars>>

StepTeensy ==
    /\ pc = "stepInput" /\ input.sketch = "teensy"
    /\ LET m == Teensy_executeStep([tx |-> <<>>, t |-> input.t], input.v)
       IN  /\ txLog' = m.tx
           /\ txCount' = Len(m.tx)
           /\ now' = m.t
    /\ lastExec' = input.v
    /\ pc' = "stepDone"
    /\ enableSent' = EnableSentAfter(enableSent, txLog')
    /\ UNCHANGED <<currentStep, currentTorque, lastTorqueSend, bamocarOnline,
                   startTime, potValue, triggerEnableSequence, envVars, nTrig,
                   probes, statusAt, ticks, potCount, potSendAt, lastSetpoint, listener,
                   listenerHist, codecVars>>

StepHeadless ==
    /\ pc = "stepInput" /\ input.sketch = "headless"
    /\ LET m == executeStep([tx |-> <<>>, t |-> input.t], input.v)
       IN  /\ txLog' = m.tx
           /\ txCount' = Len(m.tx)
           /\ now' = m.t
    /\ currentStep' = input.v
    /\ lastExec' = input.v
    /\ pc' = "stepDone"
    /\ enableSent' = EnableSentAfter(enableSent, txLog')
    /\ UNCHANGED <<currentTorque, lastTorqueSend, bamocarOnline, startTime,
                   potValue, triggerEnableSequence, envVars, nTrig, probes,
                   statusAt, ticks, potCount, potSendAt, lastSetpoint, listener,
                   listenerHist, codecVars>>

NextSteps ==
    \/ StepDue
    \/ StepTeensy
    \/ StepHeadless

SpecSteps == InitSteps /\ [][NextSteps]_vars

---------------------------------------------------------------------------
(* The Pro Micro listener.  loop() is split where the interrupt can cut in: *)
(* the test of the flag, its clearing, the read, the silence check.         *)

MESSAGE_TIMEOUT == 5000
KnownMessagesSize == 16   \* MessageStats knownMessages[16]

PMMaxPending == 2     \* frames the controller holds until they are read
PMMaxFrames == 3      \* frames that arrive in a run
PMMaxIsr == 1         \* runs of canISR in a run
PMIdleRunMs == 2500   \* consecutive loop() iterations that find nothing
PMMaxTime == 15100    \* no idle run is started that ends after this time

\* identifiers of the frames that arrive
PMIds == {BAMOCAR_TX_ID, BAMOCAR_RX_ID}

PMFrames == { Frame(id, 3, REG_SPEED, 0, 0) : id \in PMIds }

knownMessageCount == Len(listener.knownMessages)

\* mutant of updateMessageStats: a new identifier is stored without the
\* test for space
updateMessageStats_NoSpaceTest(known, id, t) ==
    IF \E i \in 1 .. Len(known) : known[i].id = id
    THEN LET i == CHOOSE k \in 1 .. Len(known) :
                    /\ known[k].id = id
                    /\ \A j \in 1 .. k - 1 : known[j].id # id
         IN  [known EXCEPT ![i].count = @ + 1, ![i].lastSeen = t]
    ELSE Append(known, [id |-> id, count |-> 1, lastSeen |-> t])

\* updateMessageStats(id) at time t: the first entry with this identifier
\* is counted, or a new entry is appended while there is space
updateMessageStats(known, id, t) ==
    IF \E i \in 1 .. Len(known) : known[i].id = id
    THEN LET i == CHOOSE k \in 1 .. Len(known) :
                    /\ known[k].id = id
                    /\ \A j \in 1 .. k - 1 : known[j].id # id
         IN  [known EXCEPT ![i].count = @ + 1, ![i].lastSeen = t]
    ELSE IF Len(known) < KnownMessagesSize
         THEN Append(known, [id |-> id, count |-> 1, lastSeen |-> t])
         ELSE known

\* history: calls of updateMessageStats with each stored identifier, the
\* storing call included
SeenAfter(seen, known, id) ==
    [i \in DOMAIN seen \cup (IF \E k \in 1 .. Len(known) : known[k].id = id
                            THEN {id} ELSE {}) |->
        IF i = id
        THEN (IF i \in DOMAIN seen THEN seen[i] ELSE 0) + 1
        ELSE seen[i]]

\* mutant of silenceCheck: the test for a received message left out
silenceCheck_NoMessageTest(l, t) ==
    IF Sub32(t, l.lastMessageTime) > MESSAGE_TIMEOUT
    THEN [l EXCEPT !.silenceReported = TRUE]
    ELSE l

\* the silence check of loop() at time t
silenceCheck(l, t) ==
    IF Sub32(t, l.lastMessageTime) > MESSAGE_TIMEOUT /\ l.messageCount > 0
    THEN [l EXCEPT !.silenceReported = TRUE]
    ELSE l

\* n iterations of loop() that find neither the flag set nor a frame: each
\* makes the silence check at its own time and ends with delay(1).  The run
\* is evaluated in two halves, the first one before the second is entered
\* (the test on firstHalf orders the evaluation; both branches are the
\* second half), so that the nesting of the evaluation stays shallow.
RECURSIVE idleLoops(_, _, _)
idleLoops(l, t, n) ==
    IF n = 0 THEN l
    ELSE IF n = 1 THEN silenceCheck(l, t)
    ELSE LET h == n \div 2
             firstHalf == idleLoops(l, t, h)
         IN  IF firstHalf.silenceReported
             THEN idleLoops(firstHalf, Add32(t, h), n - h)
             ELSE idleLoops(firstHalf, Add32(t, h), n - h)

\* the silence line is printed when the check sets the static flag
ReportsAfter(h, l, l2) ==
    [h EXCEPT !.reports = IF l2.silenceReported /\ ~l.silenceReported
                          THEN @ + 1 ELSE @]

\* what the listener actions leave alone
nonListener ==
    <<currentStep, currentTorque, lastTorqueSend, bamocarOnline, startTime,
      potValue, triggerEnableSequence, serialAvail, serialBuf, iterCost,
      txLog, txCount, nTrig, lastExec, probes, statusAt, ticks, potCount,
      potSendAt, lastSetpoint, enableSent, codecVars>>

\* mutant of messageAvailable: the flag alone, without the poll
messageAvailable_FlagOnly(l, q) == l.messageReceived

\* the test of loop(): messageReceived || CAN_MSGAVAIL == CAN.checkReceive()
messageAvailable(l, q) == l.messageReceived \/ Len(q) > 0

\* after setup(): lastMessageTime = millis()
InitListener ==
    /\ CodecIdle /\ SeqIdle
    /\ pc = "pmTest"

\* the test of loop(), found true
PMTest ==
    /\ pc = "pmTest"
    /\ messageAvailable(listener, rxq)
    /\ pc' = "pmClear"
    /\ UNCHANGED <<now, rxq, listener, listenerHist, nonListener>>

\* messageReceived = false
PMClear ==
    /\ pc = "pmClear"
    /\ listener' = [listener EXCEPT !.messageReceived = FALSE]
    /\ pc' = "pmRead"
    /\ UNCHANGED <<now, rxq, listenerHist, nonListener>>

\* CAN.readMsgBuf and the branch on its result
PMRead ==
    /\ pc = "pmRead"
    /\ IF Len(rxq) > 0
       THEN /\ listener' =
                 [listener EXCEPT
                    !.messageCount = @ + 1,
                    !.lastMessageTime = now,
                    !.knownMessages = updateMessageStats(@, Head(rxq).id, now)]
            /\ rxq' = Tail(rxq)
            /\ listenerHist' =
                 [listenerHist EXCEPT
                    !.attempts = @ + 1,
                    !.seen = SeenAfter(@, listener'.knownMessages,
                                       Head(rxq).id)]
       ELSE /\ listener' = [listener EXCEPT !.errorCount = @ + 1]
            /\ listenerHist' = [listenerHist EXCEPT !.attempts = @ + 1]
            /\ rxq' = rxq
    /\ pc' = "pmSilence"
    /\ UNCHANGED <<now, nonListener>>

\* the silence check and delay(1) of an iteration that made a read attempt
PMSilence ==
    /\ pc = "pmSilence"
    /\ listener' = silenceCheck(listener, now)
    /\ listenerHist' = ReportsAfter(listenerHist, listener, listener')
    /\ now' = Add32(now, 1)
    /\ pc' = "pmTest"
    /\ UNCHANGED <<rxq, nonListener>>

\* PMIdleRunMs iterations of loop() in a row whose test is false
PMIdleRun ==
    /\ pc = "pmTest"
    /\ ~messageAvailable(listener, rxq)
    /\ now + PMIdleRunMs <= PMMaxTime
    /\ listener' = idleLoops(listener, now, PMIdleRunMs)
    /\ listenerHist' = ReportsAfter(listenerHist, listener, listener')
    /\ now' = Add32(now, PMIdleRunMs)
    /\ UNCHANGED <<pc, rxq, nonListener>>

\* the controller receives a frame from the bus
PMFrameArrives ==
    /\ pc \in {"pmTest", "pmClear", "pmRead", "pmSilence"}
    /\ Len(rxq) < PMMaxPending
    /\ listenerHist.arrived < PMMaxFrames
    /\ \E fr \in PMFrames : rxq' = Append(rxq, fr)
    /\ listenerHist' = [listenerHist EXCEPT !.arrived = @ + 1]
    /\ UNCHANGED <<pc, now, listener, nonListener>>

\* the interrupt handler runs, at any point of loop()
canISR ==
    /\ pc \in {"pmTest", "pmClear", "pmRead", "pmSilence"}
    /\ listenerHist.isr < PMMaxIsr
    /\ listener' = [listener EXCEPT !.messageReceived = TRUE]
    /\ listenerHist' = [listenerHist EXCEPT !.isr = @ + 1, !.isrAt = pc]
    /\ UNCHANGED <<pc, now, rxq, nonListener>>

\* the steps of an iteration of loop() that has found the flag set or a
\* frame waiting
PMBusyIteration ==
    \/ PMTest
    \/ PMClear
    \/ PMRead
    \/ PMSilence

NextListener ==
    \/ PMTest
    \/ PMClear
    \/ PMRead
    \/ PMSilence
    \/ PMIdleRun
    \/ PMFrameArrives
    \/ canISR

SpecListener == InitListener /\ [][NextListener]_vars

\* the runtime calls loop() again and again, and the processor runs it: an
\* iteration with something to read is not put off forever
FairSpecListener == SpecListener /\ WF_vars(PMBusyIteration)

---------------------------------------------------------------------------
(* SpecStats: updateMessageStats applied to one identifier after another.   *)
(* Identifiers are only compared for equality, so the k-th new identifier   *)
(* is named k; with the table full, KnownMessagesSize + 1 stands for any    *)
(* identifier that is not stored.                                           *)

StatsMaxMessages == 17    \* frames read in a run

InitStats ==
    /\ CodecIdle /\ SeqIdle
    /\ pc = "statsInput"

\* the branch of loop() for a frame read with identifier id: messageCount++,
\* updateMessageStats(rxId)
StatsMessage ==
    /\ pc = "statsInput"
    /\ listener.messageCount < StatsMaxMessages
    /\ \E id \in 1 .. knownMessageCount + 1 :
         /\ frame' = Frame(id, 3, REG_SPEED, 0, 0)
         /\ listener' =
              [listener EXCEPT
                 !.messageCount = @ + 1,
                 !.lastMessageTime = now,
                 !.knownMessages = updateMessageStats(@, id, now)]
         /\ listenerHist' =
              [listenerHist EXCEPT
                 !.attempts = @ + 1,
                 !.seen = SeenAfter(@, listener'.knownMessages, id)]
    /\ UNCHANGED <<pc, now, rxq, input, reading, currentStep, currentTorque,
                   lastTorqueSend, bamocarOnline, startTime, potValue,
                   triggerEnableSequence, serialAvail, serialBuf, iterCost,
                   txLog, txCount, nTrig, lastExec, probes, statusAt, ticks,
                   potCount, potSendAt, lastSetpoint, enableSent>>

SpecStats == InitStats /\ [][StatsMessage]_vars

---------------------------------------------------------------------------
(* Claims on the step sequence *)

LockFrame   == Frame(513, 3, 81, 4, 0)
EnableFrame == Frame(513, 3, 81, 0, 0)

\* the handler that ran last executed the Enable step of its sketch
\* (step 3 of the Due sketch, step 5 of the Teensy sketches)
EnableStepJustRun ==
    \/ pc = "dueLoop" /\ lastExec = 3
    \/ pc # "dueLoop" /\ lastExec = 5

\* C1 (as claimed): the Enable step emits exactly two frames, Lock
\* (0x51, 0x04) and then Enable (0x51, 0x00), at least 100 ms apart.
C1_EnableIsLockThenEnable ==
    EnableStepJustRun =>
        /\ Len(txLog) = 2
        /\ txLog[1].f = LockFrame
        /\ txLog[2].f = EnableFrame
        /\ Sub32(txLog[2].at, txLog[1].at) >= 100

\* C2 (as claimed): from Idle, the N-th trigger executes step N, one step
\* per trigger, none skipped and none executed twice.
C2_NthTriggerExecutesStepN ==
    lastExec # -1 => lastExec = nTrig

\* C3 (as claimed): once the last defined step (6 in the Due sketch) has
\* been executed, no frame is sent again and no defined step is executed
\* again, however many triggers follow.
C3_TerminalAfterLastStep ==
    [][ (pc = "dueLoop" /\ nTrig >= 6) =>
            /\ txCount' = txCount
            /\ (nTrig' # nTrig => lastExec' \notin 1 .. 6) ]_vars

---------------------------------------------------------------------------
(* Claims on the online wait of the headless sequencer (SpecHeadless) *)

\* positions of setup() and loop() behind the online wait
PastOnlineWait == {"hAborted", "hSeq", "hPedalWait", "hLoop"}

\* C7: with no STATUS reply delivered, the online wait ends with the online
\* flag false once 10000 ms have elapsed since it started, and it has sent
\* at most 100 probes: every probe is followed by at least 100 ms of delay,
\* the probe count never exceeds 100, and a run that is past the wait
\* without a reply is in the abort with the flag false and the time up.
C7_TimeoutEndsWaitOffline ==
    /\ probes <= 100
    /\ pc = "hWaitCheck" => Sub32(now, startTime) >= ONLINE_POLL_MS * probes
    /\ (pc \in PastOnlineWait /\ statusAt = -1) =>
          /\ pc = "hAborted"
          /\ ~bamocarOnline
          /\ Sub32(now, startTime) >= 10000
          /\ Sub32(now, startTime) < 10000 + ONLINE_POLL_MS + MaxIterCost + 1

\* C7 witness: the wait timed out after exactly 100 probes and 10000 ms,
\* no STATUS reply having been delivered
C7_Witness ==
    /\ pc = "hAborted"
    /\ statusAt = -1
    /\ probes = 100
    /\ Sub32(now, startTime) = 10000

\* C8: when the online wait times out the sequence halts: the run stays in
\* the abort, steps 2 to 7 are never executed (the step counter stays 1),
\* and no frame is sent after the timeout (only the two step-1 frames and
\* the probes were ever sent).
C8_TimeoutHaltsSequence ==
    /\ [](  (pc \in PastOnlineWait /\ ~bamocarOnline) =>
               /\ pc = "hAborted"
               /\ currentStep = 1
               /\ txCount = 2 + probes )
    /\ [][ pc = "hAborted" =>
               /\ pc' = "hAborted"
               /\ currentStep' = currentStep
               /\ txCount' = txCount
               /\ txLog' = txLog
               /\ lastExec' = lastExec ]_vars

\* C8 witness: the run is halted after a timeout while a STATUS reply that
\* came in later waits unread in the inbound queue
C8_Witness ==
    /\ pc = "hAborted"
    /\ currentStep = 1
    /\ rxq = <<StatusReply>>
    /\ Sub32(statusAt, startTime) >= 10000

\* C9: a STATUS reply delivered to the inbound queue before 10000 ms have
\* elapsed since the wait started makes the wait succeed (the online flag is
\* true behind the wait), also when it arrives in the final poll interval
\* after the last probe.
C9_ReplyBeforeTimeoutSucceeds ==
    (/\ pc \in PastOnlineWait
     /\ statusAt # -1
     /\ statusAt - startTime < 10000) => bamocarOnline

\* C10: the online flag starts false, becomes true only in a step that reads
\* a frame with identifier 0x181, length at least 3 and first byte 0x40,
\* and once true is never set back to false.
C10_OnlineFlagSetOnlyByStatusReply ==
    /\ ~bamocarOnline
    /\ [][ (~bamocarOnline /\ bamocarOnline') =>
              \E i \in 1 .. Len(rxq) :
                  /\ rxq[i].id = 385
                  /\ rxq[i].len >= 3
                  /\ rxq[i].buf[1] = 64 ]_vars
    /\ [][ bamocarOnline => bamocarOnline' ]_vars

\* C10 witness: the flag was set during the wait and is still set in loop()
\* after frames that do not qualify have been read
C10_Witness ==
    /\ pc = "hLoop"
    /\ bamocarOnline
    /\ lastTorqueSend > 0
    /\ rxq = <<Frame(BAMOCAR_TX_ID, 2, REG_STATUS, 1, 0)>>

---------------------------------------------------------------------------
(* Claims on the pedal gate and the automatic sequence (headless) *)

\* C11: torque-control mode (step 7) is entered only from the pedal wait and
\* only when the pedal value tested last shows at most 5 % pressed; while
\* the value shows more than 5 % the run stays in the wait at step 6 and
\* sends no frame.
C11_PedalGateBeforeTorqueControl ==
    /\ [](pc = "hPedalWait" => currentStep = 6)
    /\ [][ /\ (currentStep # 7 /\ currentStep' = 7) =>
                 /\ pc = "hPedalWait"
                 /\ (2930 - potValue) * 100 <= 5 * 1070
           /\ (pc = "hPedalWait" /\ (2930 - potValue) * 100 > 5 * 1070) =>
                 /\ pc' = "hPedalWait"
                 /\ currentStep' = 6
                 /\ txCount' = txCount ]_vars

\* C11 witness: step 7 has just been entered after the wait polled a
\* pressed pedal at least once
C11_Witness ==
    /\ lastExec = 7
    /\ currentStep = 7
    /\ ticks >= 1

\* a STATUS reply was delivered while the online wait was running, before
\* 10000 ms had elapsed since its start
ReplyWithinWait ==
    /\ pc \in {"hWaitCheck", "hWaitDelay"}
    /\ statusAt # -1
    /\ statusAt - startTime < 10000

\* the pedal wait is reading the pedal above 5 %
PedalHeld ==
    pc = "hPedalWait" /\ (2930 - potValue) * 100 > 5 * 1070

\* C12: with no trigger, if a STATUS reply arrives within the online wait
\* then the run reaches torque-control mode (currentStep = 7) unless the
\* pedal is read above 5 % for ever.
C12_AutoSequenceReachesTorqueControl ==
    \/ [](~ReplyWithinWait)
    \/ <>(currentStep = 7)
    \/ <>[]PedalHeld

---------------------------------------------------------------------------
(* Claims on the torque scalers (SpecScaler) *)

ScaledBy(sk) == pc = "scalerDone" /\ input.sketch = sk

\* C14: the bidirectional scaler of the open sketch puts a torque command
\* within -16383..16383 (16383 = 50 * 32767 / 100) into the frame for every
\* raw reading, also outside 0..1023, and the narrowing to int16 keeps the
\* value.
C14_BidirectionalClamped ==
    ScaledBy("open") =>
        /\ MAX_TORQUE_COMMAND = 16383
        /\ reading.wide \in -16383 .. 16383
        /\ reading.value = reading.wide
        /\ Raw16(frame) = Pattern16(reading.value)

\* C14 witness: a reading far above the 10-bit range is clamped to 16383
C14_Witness ==
    ScaledBy("open") /\ input.v = 8000 /\ reading.value = 16383

\* C15: the unidirectional scaler of every sequencer sketch gives a torque
\* command within 0..16383 for every raw reading, also outside the
\* calibrated or the ADC range.
C15_UnidirectionalClamped ==
    (ScaledBy("headless") \/ ScaledBy("teensy") \/ ScaledBy("due")) =>
        reading.value \in 0 .. 16383

\* C16: for every reading with |raw - 512| <= 8 the open sketch sends a
\* torque command of exactly 0, payload bytes 1 and 2 both 0x00.
C16_DeadzoneIsZero ==
    (ScaledBy("open") /\ Abs(input.v - 512) <= 8) =>
        /\ reading.value = 0
        /\ frame.buf[2] = 0
        /\ frame.buf[3] = 0

\* C16 witness: the reading at the upper edge of the deadzone
C16_Witness ==
    ScaledBy("open") /\ input.v = 520 /\ frame.buf = <<144, 0, 0>>

\* C17: for every reading outside the deadzone (|raw - 512| > 8) the torque
\* command of the open sketch is not zero and has the sign of raw - 512.
C17_SignFollowsDeflection ==
    (ScaledBy("open") /\ Abs(input.v - 512) > 8) =>
        /\ reading.value # 0
        /\ (reading.value > 0) <=> (input.v > 512)

\* C17 witness: the first reading below the deadzone gives a negative
\* command
C17_Witness ==
    ScaledBy("open") /\ input.v = 503 /\ reading.value = -287

\* C18: the unidirectional scaler is non-decreasing in pedal press: of two
\* readings the one with at least as much press gets at least as much
\* torque.  The headless pedal is pressed towards lower readings, the pot of
\* the interactive sketches towards higher ones; input.w >= input.v.
C18_MonotoneInPress ==
    /\ ScaledBy("headless") => reading.value >= reading.other
    /\ (ScaledBy("due") \/ ScaledBy("teensy")) =>
           reading.other >= reading.value

\* C18 witness: two neighbouring readings inside the calibrated travel of
\* the headless pedal, the more pressed one with strictly more torque
C18_Witness ==
    /\ ScaledBy("headless")
    /\ input.v = 2400 /\ input.w = 2401
    /\ reading.value > reading.other
    /\ reading.other > 0

\* TORQUE_FULL_SCALE * percent / 100, truncated, for the percentage
\* 100 * n / d clamped to 0..MAX_ACCEL_PERCENT
TorqueOfPercent(n, d) ==
    IF n < 0 THEN 0
    ELSE IF 100 * n > 50 * d THEN TruncDiv(32767 * 50, 100)
    ELSE TruncDiv(32767 * n, d)

\* C19: in every sequencer sketch the torque command is 32767 * percent /
\* 100, truncated, for the sketch's pedal percentage clamped to 0..50
\* (headless: 100 * (2930 - raw) / 1070; interactive: 50 * raw / 4095), and
\* a fully pressed pedal gives 16383.
C19_TorqueIsPercentOfFullScale ==
    /\ ScaledBy("headless") =>
           /\ reading.value = TorqueOfPercent(2930 - input.v, 1070)
           /\ input.v = 1860 => reading.value = 16383
    /\ (ScaledBy("teensy") \/ ScaledBy("due")) =>
           /\ reading.value = TorqueOfPercent(input.v, 8190)
           /\ input.v = 4095 => reading.value = 16383

---------------------------------------------------------------------------
(* Claims on the torque cadence (SpecCadence) *)

---------------------------------------------------------------------------
(* Claims on single steps (SpecSteps) *)

\* the number of the Disable step in each sequencer sketch
DisableStep(sk) == IF sk = "due" THEN 6 ELSE 8

\* C20: executing the Disable step sends exactly one frame, Lock
\* [0x51, 0x04, 0x00] on identifier 0x201, and no Enable frame, in every
\* sequencer sketch.
C20_DisableIsLockOnly ==
    (pc = "stepDone" /\ input.v = DisableStep(input.sketch)) =>
        /\ Len(txLog) = 1
        /\ txLog[1].f = Frame(513, 3, 81, 4, 0)


\* C21 (as claimed): whenever the Disable step runs (step 6 of the Due
\* sequencer, step 8 of the Teensy one), the last torque setpoint sent before
\* its Lock frame has the value 0 and was sent by a step, after the cadence
\* check of torque control had sent its last frame.
C21_ZeroTorqueBeforeDisable ==
    [][ (nTrig' = nTrig + 1
            /\ lastExec' = (IF pc = "dueLoop" THEN 6 ELSE 8)) =>
           lastSetpoint = <<[value |-> 0, pot |-> FALSE]>> ]_vars

\* C22: an iteration of the interactive loop polls the trigger before it
\* makes the cadence check, so the step a trigger has just entered decides
\* the cadence check of the same iteration: a pot-derived frame is sent in
\* the iteration that handles a trigger exactly when the step entered is the
\* torque-control step and the send interval has passed (the Due sketch
\* restarts the interval from 0 on entering the step).
C22_TriggerInEffectForCadence ==
    [][ (nTrig' = nTrig + 1) =>
          ( (potCount' = potCount + 1) <=>
              IF pc = "dueLoop"
              THEN currentStep' = 4 /\ now >= TORQUE_SEND_INTERVAL_MS
              ELSE currentStep' = 7 /\ now' - lastTorqueSend >= 20 ) ]_vars

\* C22 witness: the Due iteration that handled the trigger into step 4 has
\* also sent the first pot-derived frame
C22_Witness ==
    /\ pc = "dueLoop" /\ lastExec = 4 /\ currentStep = 4
    /\ potCount = 1 /\ potSendAt = now
    /\ Len(txLog) = 1 /\ txLog[1].f.buf[1] = REG_TORQUE

\* C28 (as claimed): the step counter changes only when a trigger is
\* handled, and then by exactly +1; without a trigger neither draining the
\* inbound queue nor the cadence check changes it, and without a trigger
\* the last torque command and the last send time change only when the
\* cadence check sends.
C28_StepOwnedByTriggerHandler ==
    [][ /\ (nTrig' = nTrig) => currentStep' = currentStep
        /\ (nTrig' = nTrig + 1) => currentStep' = currentStep + 1
        /\ (nTrig' = nTrig /\ potCount' = potCount) =>
              /\ currentTorque' = currentTorque
              /\ lastTorqueSend' = lastTorqueSend ]_vars

\* C29 (as claimed): when two or more characters are pending at a trigger
\* poll, the poll consumes the whole burst and the step advances once; no
\* character is left to advance the step again.
C29_BurstAdvancesOneStep ==
    [][ (serialAvail >= 2 /\ nTrig' = nTrig + 1) =>
          /\ serialAvail' = 0
          /\ currentStep' = Due_nextStep(currentStep) ]_vars

---------------------------------------------------------------------------
(* Claims on the decoding of received frames *)

\* the register table of the protocol
KnownRegisters == {REG_REQUEST, REG_MODE, REG_TORQUE, REG_CLEAR, REG_TIMEOUT,
                   REG_SPEED, REG_STATUS, REG_DCBUS, 95, 160}

\* a received frame has been decoded and put to the online test
Received == pc = "codecDone" /\ input.op = "rx"

\* nothing of the sequencer has changed since reset
SequencerUntouched ==
    /\ currentStep = 0 /\ currentTorque = 0 /\ lastTorqueSend = 0
    /\ ~bamocarOnline

\* C23: a frame on 0x201 or 0x181 whose register byte is in no register
\* table is decoded by both Teensy decoders as an unknown-register reading
\* that carries the register byte, and reading it changes neither the
\* sequencer state nor the online flag.
C23_UnknownRegisterDecodes ==
    (Received /\ frame.id \in {513, 385}
        /\ frame.buf[1] \notin KnownRegisters) =>
        /\ reading.headless.kind \in {"UnknownCommand", "UnknownReply"}
        /\ reading.headless.value = frame.buf[1]
        /\ reading.teensy.kind \in {"UnknownCommand", "UnknownReply"}
        /\ reading.teensy.value = frame.buf[1]
        /\ SequencerUntouched

\* C23 witness: the reply [0x77, 0xFF, 0xFF] on 0x181 has been read
C23_Witness ==
    /\ Received /\ frame.id = 385 /\ frame.len = 3
    /\ frame.buf = <<119, 255, 255>>
    /\ reading.headless = Reading("UnknownReply", 119)
    /\ ~bamocarOnline

\* C24: a received frame whose identifier is neither 0x201 nor 0x181 gets
\* the empty decoding from both Teensy decoders whatever its payload, and
\* reading it leaves the step counter, the last torque command and the
\* online flag as they were, also when its payload starts with 0x40.
C24_ForeignIdentifierIgnored ==
    (Received /\ frame.id \notin {513, 385}) =>
        /\ reading.headless = Reading("Empty", 0)
        /\ reading.teensy = Reading("Empty", 0)
        /\ SequencerUntouched

\* C24 witness: a 3-byte frame that starts with 0x40 on identifier 0x381
\* has been read
C24_Witness ==
    /\ Received /\ frame.id = 897 /\ frame.len = 3
    /\ frame.buf[1] = 64
    /\ reading.headless.kind = "Empty"
    /\ ~bamocarOnline

\* C25 (as claimed): a frame on 0x181 with register 0x30 and at least 3
\* payload bytes is decoded by both Teensy decoders as the speed given by
\* the signed 16-bit little-endian value of bytes 1-2 (0xFF 0xFF is -1).
C25_SpeedIsSigned ==
    (Received /\ frame.id = 385 /\ frame.len >= 3
        /\ frame.buf[1] = 48) =>
        LET rpm == ToInt16(frame.buf[2] + 256 * frame.buf[3])
        IN  /\ reading.headless = Reading("Speed", rpm)
            /\ reading.teensy = Reading("Speed", rpm)

\* C26: a frame on 0x181 with register 0xEB and at least 3 payload bytes
\* is decoded by both Teensy decoders as a DC bus voltage whose value in
\* tenths of a volt is the little-endian 16-bit value of bytes 1-2.
C26_DCBusInTenths ==
    (Received /\ frame.id = 385 /\ frame.len >= 3
        /\ frame.buf[1] = 235) =>
        LET tenths == frame.buf[2] + 256 * frame.buf[3]
        IN  /\ reading.headless = Reading("DCBusVoltage", tenths)
            /\ reading.teensy = Reading("DCBusVoltage", tenths)

\* C26 witness: [0xEB, 0x64, 0x00] has been decoded as 10.0 V
C26_Witness ==
    /\ Received /\ frame.id = 385 /\ frame.len = 3
    /\ frame.buf = <<235, 100, 0>>
    /\ reading.headless = Reading("DCBusVoltage", 100)
    /\ reading.teensy = Reading("DCBusVoltage", 100)

---------------------------------------------------------------------------
(* Claims on the frames sent *)

PauseRequested ==
    triggerEnableSequence \/ \E i \in 1 .. Len(serialBuf) :
                                  serialBuf[i] \in {"s", "S"}

\* C30: in either open sketch, an iteration of loop() that finds the pause
\* requested sends exactly one Lock frame and, at least 100 ms later,
\* exactly one Enable frame, no torque frame, and leaves the trigger flag
\* cleared; an iteration that does not find it requested (no character or
\* only other characters pending) sends exactly one torque frame, so other
\* characters never start the sequence and torque transmission resumes
\* with the iteration after the sequence.
C30_PauseIsLockThenEnable ==
    [][ (ticks' = ticks + 1) =>
          /\ PauseRequested =>
                /\ Len(txLog') = 2
                /\ txLog'[1].f = LockFrame
                /\ txLog'[2].f = EnableFrame
                /\ txLog'[2].at - txLog'[1].at >= 100
                /\ now' >= txLog'[2].at
          /\ ~PauseRequested =>
                /\ Len(txLog') = 1
                /\ txLog'[1].f.buf[1] = 144
          /\ ~triggerEnableSequence' ]_vars

\* C30 witness: a sketch that had sent torque frames has run the sequence on
\* an 's' and then sent a torque frame again
C30_Witness ==
    /\ pc \in {"openLoop", "fixedLoop"}
    /\ ticks = 3 /\ txCount = 4
    /\ now = 4120
    /\ Len(txLog) = 1 /\ txLog[1].f.buf[1] = 144
    /\ ~triggerEnableSequence

---------------------------------------------------------------------------
(* The sequencers enable the drive before they command a torque *)

\* the sketches that step through the enable sequence
SequencerRunning == pc \in {"dueLoop", "teensyLoop", "hBoot", "hWaitCheck",
                            "hWaitDelay", "hSeq", "hPedalWait", "hLoop",
                            "hAborted"}

\* the i-th frame of the log tx is a torque setpoint
TorqueFrameAt(tx, i) == tx[i].f.buf[1] = REG_TORQUE

\* the i-th frame of the log tx is an Enable frame
EnableFrameAt(tx, i) ==
    tx[i].f.buf[1] = REG_MODE /\ tx[i].f.buf[2] = MODE_ENABLE

\* C31: in every run of a sequencer (interactive Due, interactive Teensy,
\* headless) no torque setpoint frame (register 0x90) is sent unless an
\* Enable frame (register 0x51, low byte 0x00) was sent before it, by an
\* earlier handler or earlier in the same handler
C31_EnableBeforeTorque ==
    [][ SequencerRunning =>
          \A i \in 1 .. Len(txLog') :
             TorqueFrameAt(txLog', i) =>
                \/ enableSent
                \/ \E j \in 1 .. i - 1 : EnableFrameAt(txLog', j) ]_vars

\* a sequencer has just sent a pedal setpoint, the drive enabled before
C31_Witness ==
    /\ SequencerRunning /\ enableSent
    /\ \E i \in 1 .. Len(txLog) : TorqueFrameAt(txLog, i)
    /\ potCount >= 1

---------------------------------------------------------------------------
(* The headless sketch stays in torque control *)

\* an iteration of the headless loop(): the clock stands, the queue is
\* drained
HeadlessLoopIterates == pc = "hLoop" /\ now' = now /\ rxq' = <<>>

---------------------------------------------------------------------------
(* The decoders compared *)

\* C33: for every frame (any identifier, length and payload) the headless
\* and the interactive Teensy interpretBamocarMessage give the same reading
\* kind and the same numeric value
C33_DecodersEquivalent ==
    Received =>
        /\ reading.headless.kind = reading.teensy.kind
        /\ reading.headless.value = reading.teensy.value

\* bit k of the status word of the frame decoded last, as 0 or 1
StatusBit(k) == (Raw16(frame) \div (2 ^ k)) % 2

\* C34: for every status word received from the drive (a frame on 0x181 with
\* register 0x40 and at least 3 bytes) the Enabled, Ready and Fault flags
\* printed by the console decoder and by the log decoder of the interactive
\* Teensy sketch are identical, each 0 or 1 and equal to bit 0, bit 2 and
\* bit 6 of the little-endian 16-bit status value
C34_StatusFlagsAgree ==
    (Received /\ frame.id = 385 /\ frame.len >= 3 /\ frame.buf[1] = 64) =>
        /\ reading.teensyConsole = << StatusBit(0), StatusBit(2), StatusBit(6) >>
        /\ reading.teensyLogFlags = reading.teensyConsole

---------------------------------------------------------------------------
(* The cadence check across the wrap of the millisecond clock *)

\* the torque-control step of the interactive sketch that runs
TorqueControlStep == IF pc = "dueLoop" THEN 4 ELSE 7

\* an iteration of the interactive loop(): no clock advance of the
\* environment, the queue drained, no character added
InteractiveLoopIterates ==
    /\ ticks' = ticks /\ (pc = "dueLoop" => now' = now)
    /\ rxq' = <<>> /\ serialAvail' <= serialAvail

\* the interval has passed at the cadence check of the iteration, the
\* elapsed time taken modulo 2^32: a negative difference of the signed
\* readings is 2^32 minus a small number
IntervalPassedMod32 ==
    LET since == IF pc = "dueLoop" /\ nTrig' # nTrig
                 THEN 0 ELSE lastTorqueSend
        d     == now' - since
    IN  d < 0 \/ d >= TORQUE_SEND_INTERVAL_MS

\* the cadence check sends in every iteration in torque control that finds
\* the interval passed, and in no other
C35_CadenceAcrossWrap ==
    (InteractiveLoopIterates /\ currentStep' = TorqueControlStep) =>
        ((potCount' = potCount + 1) <=> IntervalPassedMod32)

\* the iteration after the one that entered torque control sends a torque
\* frame, unless the entering iteration has sent it
C35_FirstFrameAtOnce ==
    ( /\ lastExec = TorqueControlStep /\ currentStep = TorqueControlStep
      /\ \A i \in 1 .. Len(txLog) : ~TorqueFrameAt(txLog, i)
      /\ InteractiveLoopIterates /\ nTrig' = nTrig ) =>
        potCount' = potCount + 1

\* C35: the torque cadence check of the interactive sketches stays correct
\* when the 32-bit millisecond clock wraps: with the elapsed time taken
\* modulo 2^32 the transmission neither stalls nor fires early across the
\* wrap, and on entering torque-control mode the first torque frame is sent
\* on the next loop iteration
C35_CadenceCorrectAcrossWrap ==
    [][ C35_CadenceAcrossWrap /\ C35_FirstFrameAtOnce ]_vars

---------------------------------------------------------------------------
(* Claims on the Pro Micro listener *)

\* at least k frames have arrived in the controller
ArrivedAtLeast(k) == listenerHist.arrived >= k

\* at least k frames have been read
ReadAtLeast(k) == listener.messageCount >= k

\* every read attempt counts as a message or as an error
AttemptsAccounted ==
    listener.messageCount + listener.errorCount = listenerHist.attempts

\* C36: in the Pro Micro listener a frame that becomes available at any
\* point of loop(), also when the interrupt sets messageReceived between the
\* test of the flag and its clearing, is read by this or a later iteration:
\* the k-th frame to arrive is eventually the k-th frame read, so no pending
\* frame stays unread forever; and messageCount + errorCount always equals
\* the number of read attempts
C36_NoFrameLeftUnread ==
    /\ []AttemptsAccounted
    /\ \A k \in 1 .. PMMaxFrames : ArrivedAtLeast(k) ~> ReadAtLeast(k)

\* the interrupt set the flag while the loop stood between its test and its
\* clearing, with a second frame behind the first; the flag was cleared, and
\* both frames have been read since, the second one found by the poll
C36_Witness ==
    /\ listenerHist.isrAt = "pmClear" /\ ~listener.messageReceived
    /\ listenerHist.arrived = 2 /\ listener.messageCount = 2
    /\ listenerHist.attempts = 2 /\ rxq = <<>> /\ pc = "pmSilence"

\* the identifiers stored in the table
StoredIds(known) == { known[i].id : i \in 1 .. Len(known) }

\* the table is well formed: at most 16 entries, no identifier twice, every
\* count at least 1 and equal to the number of times the identifier has been
\* seen since it was stored
StatsTableWellFormed ==
    LET known == listener.knownMessages
    IN  /\ knownMessageCount >= 0 /\ knownMessageCount <= 16
        /\ \A i, j \in 1 .. Len(known) :
              i # j => known[i].id # known[j].id
        /\ \A i \in 1 .. Len(known) :
              /\ known[i].count >= 1
              /\ known[i].id \in DOMAIN listenerHist.seen
              /\ known[i].count = listenerHist.seen[known[i].id]

\* an identifier that is new while the table holds 16 entries is not stored
\* and leaves every entry as it is
FullTableDropsNewId ==
    ( /\ listener'.messageCount = listener.messageCount + 1
      /\ knownMessageCount = 16
      /\ frame'.id \notin StoredIds(listener.knownMessages) ) =>
        listener'.knownMessages = listener.knownMessages

\* C37: the per-identifier table of the Pro Micro listener satisfies at all
\* times 0 <= knownMessageCount <= 16, the stored identifiers are pairwise
\* distinct, each stored count is at least 1 and equals the number of times
\* that identifier has been seen since it was stored, and an identifier
\* first seen when the table holds 16 entries is never stored and changes
\* no existing entry
C37_StatsTableInvariant ==
    []StatsTableWellFormed /\ [][FullTableDropsNewId]_vars

\* the table is full and the frame read last carried a seventeenth
\* identifier, which was dropped
C37_Witness ==
    /\ pc = "statsInput" /\ knownMessageCount = 16
    /\ listener.messageCount = 17 /\ frame.id = 17
    /\ \A i \in 1 .. 16 : listener.knownMessages[i].count = 1

\* a silence line is printed
SilenceLinePrinted == listenerHist.reports' # listenerHist.reports

\* C38: the Pro Micro listener reports bus silence only after at least one
\* message has been received and more than 5000 ms have passed since the
\* last one, and at most once per run: the flag silenceReported is never
\* reset, so a later silence is not reported
C38_SilenceReportedOnce ==
    [][ SilenceLinePrinted =>
          /\ listenerHist.reports = 0 /\ listenerHist.reports' = 1
          /\ listener.messageCount > 0
          /\ (now' - 1) - listener.lastMessageTime > 5000
          /\ listener'.silenceReported /\ ~listener.silenceReported ]_vars

\* silence was reported once, a message was read after the report, and the
\* bus has been silent again for more than 5000 ms without a second report
C38_Witness ==
    /\ listenerHist.reports = 1 /\ listener.silenceReported
    /\ listener.messageCount >= 2
    /\ listener.lastMessageTime > 5000
    /\ (now - 1) - listener.lastMessageTime > 5000
    /\ pc = "pmTest"

=============================================================================
